---- MODULE Spec2Model ----
(* Model of the boilerr operator: the SteamServer (instance) reconciler, the    *)
(* GameDefinition (template) reconciler, the object store they work against    *)
(* and the pure helpers they call.                                             *)
EXTENDS Integers, Sequences, FiniteSets, TLC

VARIABLES
    server,      \* the SteamServer object in the store
    gameDef,     \* the GameDefinition object in the store
    configMap,   \* ConfigMap "<name>-config"
    pvc,         \* PersistentVolumeClaim "<name>-data"
    sts,         \* StatefulSet "<name>"
    svc,         \* Service "<name>"
    pod,         \* Pod "<name>-0"
    queued,      \* a reconcile request for the SteamServer is in the work queue
    gdQueued,    \* a reconcile request for the GameDefinition is in the work queue
    now,         \* wall clock (metav1.Now)
    pass,        \* what the most recent SteamServer pass did
    arg,         \* input of a pure function under check
    res          \* its result

vars == <<server, gameDef, configMap, pvc, sts, svc, pod, queued, gdQueued, now, pass, arg, res>>

-----------------------------------------------------------------------------
(* Bounds *)

MaxTime == 3

-----------------------------------------------------------------------------
(* Names and constants of the program *)

FinalizerName == "boilerr.dev/steamserver-finalizer"
OtherFinalizer == "example.com/other-finalizer"
ServerName == "srv"
GameDefName == "g1"

InitContainerName == "steamcmd"
GameServerContainerName == "gameserver"
DefaultImage == "steamcmd/steamcmd:ubuntu-22"
DefaultStorageSize == "20Gi"

ServerStatePending == "Pending"
ServerStateInstalling == "Installing"
ServerStateStarting == "Starting"
ServerStateRunning == "Running"
ServerStateError == "Error"

NotReadyRequeueAfter == 30
NotRunningRequeueAfter == 10

GameDefValidatedMessage == "GameDefinition validated successfully"

\* A claim name that leaves the instance name out.
PVCNameShared(serverName) == "steamserver-data"

PVCName(serverName) == serverName \o "-data"
ConfigMapName(serverName) == serverName \o "-config"

NoTime == -1
NoObject == [exists |-> FALSE]

\* The one element of a singleton set.
Only(S) == CHOOSE x \in S : TRUE

Lookup(m, k) == IF k \in DOMAIN m THEN m[k] ELSE ""

Min(S) == CHOOSE x \in S : \A y \in S : x <= y

Digit(d) ==
    CASE d = 0 -> "0" [] d = 1 -> "1" [] d = 2 -> "2" [] d = 3 -> "3" [] d = 4 -> "4"
      [] d = 5 -> "5" [] d = 6 -> "6" [] d = 7 -> "7" [] d = 8 -> "8" [] OTHER -> "9"

RECURSIVE Itoa(_)
Itoa(n) == IF n < 10 THEN Digit(n) ELSE Itoa(n \div 10) \o Digit(n % 10)

Quote(s) == "\"" \o s \o "\""

-----------------------------------------------------------------------------
(* Objects the model draws from *)

PortGame == [name |-> "game", containerPort |-> 2456, servicePort |-> 0, protocol |-> ""]
PortQuery == [name |-> "query", containerPort |-> 2457, servicePort |-> 27016, protocol |-> "TCP"]

Literal(v) == [value |-> v, secretKeyRef |-> ""]

NoSchema == [isNil |-> TRUE, entries |-> <<>>]

SchemaValheim ==
    [isNil |-> FALSE,
     entries |-> ("serverName" :> [required |-> TRUE, enum |-> <<>>, default |-> "", mapTo |-> ""]
               @@ "difficulty" :> [required |-> FALSE, enum |-> <<"easy", "hard">>, default |-> "easy",
                                 mapTo |-> "env"])]

GDValid ==
    [appId |-> 90, command |-> "/serverfiles/start.sh", ports |-> <<PortGame>>,
     configSchema |-> SchemaValheim, defaultStorage |-> "", image |-> "",
     installDir |-> "", defaultResources |-> <<>>, env |-> <<>>,
     configFiles |-> <<[path |-> "/config/default.cfg", content |-> "seed=1"]>>,
     args |-> <<"-name", "{{.Config.serverName}}", "-mode", "{{ .Config.difficulty }}">>]

\* A template without a schema and with a default storage size, whose second
\* argument lacks the closing braces.
GDNoSchema ==
    [GDValid EXCEPT !.configSchema = NoSchema, !.defaultStorage = "10Gi",
                    !.args = <<"-world", "{{.Config.serverName">>]

GDInvalid == [GDValid EXCEPT !.appId = 0]

GameDefSpecs == {GDValid, GDNoSchema, GDInvalid}

NoStorage == [isNil |-> TRUE, size |-> "0"]

\* The AppId override of an instance: a pointer, nil when not given.
NoAppId == [isNil |-> TRUE, value |-> 0]

\* The resources of an instance: a pointer, nil when not given; the value maps
\* a resource name to its quantity.
NoResources == [isNil |-> TRUE, value |-> <<>>]

\* A *bool that is nil.
NoBool == [isNil |-> TRUE, value |-> FALSE]

SpecBasic ==
    [gameDefinition |-> GameDefName, game |-> "",
     config |-> ("serverName" :> Literal("Vikings")),
     configFiles |-> <<>>, storage |-> NoStorage, ports |-> <<>>, serviceType |-> "", image |-> "",
     appId |-> NoAppId, args |-> <<>>, command |-> <<>>, resources |-> NoResources, env |-> <<>>,
     beta |-> "", validate |-> NoBool, anonymous |-> NoBool, steamCredentialsSecret |-> ""]

SpecFull ==
    [SpecBasic EXCEPT !.configFiles = <<[path |-> "/config/server.cfg", content |-> "max=10"]>>,
                      !.ports = <<PortGame, PortQuery>>,
                      !.serviceType = "NodePort"]

SpecBadConfig ==
    [SpecBasic EXCEPT !.config = ("serverName" :> Literal("Vikings") @@ "bogus" :> Literal("1")),
                      !.storage = [isNil |-> FALSE, size |-> "30Gi"]]

SpecFallback ==
    [SpecBasic EXCEPT !.gameDefinition = "", !.config = <<>>,
                      !.storage = [isNil |-> FALSE, size |-> "0"],
                      !.ports = <<PortGame>>, !.serviceType = "ClusterIP",
                      !.appId = [isNil |-> FALSE, value |-> 730],
                      !.args = <<"-port", "2456">>]

ServerSpecs == {SpecFull, SpecBadConfig, SpecFallback}

NoStatus == [state |-> "", address |-> "", ports |-> <<>>, lastUpdated |-> NoTime, message |-> ""]

NoServer == [exists |-> FALSE, deleting |-> FALSE, finalizers |-> {}, spec |-> SpecBasic, status |-> NoStatus]

NoGameDef == [exists |-> FALSE, spec |-> GDValid, status |-> [ready |-> FALSE, message |-> ""]]

ContainerRunning(n, ready) == [name |-> n, state |-> "running", exitCode |-> 0, ready |-> ready]
ContainerTerminated(n, code) == [name |-> n, state |-> "terminated", exitCode |-> code, ready |-> FALSE]
ContainerWaiting(n) == [name |-> n, state |-> "waiting", exitCode |-> 0, ready |-> FALSE]

PodOf(phase, inits, mains) ==
    [exists |-> TRUE, phase |-> phase, initContainerStatuses |-> inits, containerStatuses |-> mains]

PodPending == PodOf("Pending", <<>>, <<>>)
PodInstalling ==
    PodOf("Running", <<ContainerRunning(InitContainerName, FALSE)>>, <<ContainerWaiting(GameServerContainerName)>>)
PodStarting ==
    PodOf("Running", <<ContainerTerminated(InitContainerName, 0)>>, <<ContainerRunning(GameServerContainerName, FALSE)>>)
PodReady ==
    PodOf("Running", <<ContainerTerminated(InitContainerName, 0)>>, <<ContainerRunning(GameServerContainerName, TRUE)>>)
PodFailed == PodOf("Failed", <<ContainerTerminated(InitContainerName, 1)>>, <<>>)

PodStatuses == {PodPending, PodInstalling, PodStarting, PodReady, PodFailed}

-----------------------------------------------------------------------------
(* internal/config: ValidateConfig *)

\* A required check that looks only for the key, not at its value.
RequiredErrorsPresenceOnly(config, entries) ==
    {"required config key " \o Quote(k) \o " not provided" :
        k \in {x \in DOMAIN entries : entries[x].required /\ x \notin DOMAIN config}}

\* The errors ValidateConfig can return. Go iterates a map in no fixed order, so
\* within one check any offending key may be the one reported; the three checks
\* run in the order required, unknown, enum.
RequiredErrors(config, entries) ==
    {"required config key " \o Quote(k) \o " not provided" :
        k \in {x \in DOMAIN entries : entries[x].required /\ x \notin DOMAIN config}}
    \cup
    {"required config key " \o Quote(k) \o " has empty value" :
        k \in {x \in DOMAIN entries : /\ entries[x].required
                                       /\ x \in DOMAIN config
                                       /\ config[x].value = ""
                                       /\ config[x].secretKeyRef = ""}}

UnknownErrors(config, entries) ==
    {"unknown config key " \o Quote(k) : k \in DOMAIN config \ DOMAIN entries}

\* %v of a []string: the elements with a space between them.
RECURSIVE JoinSpace(_)
JoinSpace(strs) ==
    IF Len(strs) = 0 THEN ""
    ELSE IF Len(strs) = 1 THEN strs[1]
    ELSE strs[1] \o " " \o JoinSpace(Tail(strs))

InEnum(v, enum) == \E i \in 1..Len(enum) : enum[i] = v

EnumErrors(config, entries) ==
    {"config key " \o Quote(k) \o " value " \o Quote(config[k].value)
        \o " not in allowed values [" \o JoinSpace(entries[k].enum) \o "]" :
        k \in {x \in DOMAIN config \cap DOMAIN entries :
                  /\ Len(entries[x].enum) > 0
                  /\ config[x].value # ""
                  /\ ~InEnum(config[x].value, entries[x].enum)}}

ValidateConfig(config, entries) ==
    IF RequiredErrors(config, entries) # {} THEN RequiredErrors(config, entries)
    ELSE IF UnknownErrors(config, entries) # {} THEN UnknownErrors(config, entries)
    ELSE EnumErrors(config, entries)

-----------------------------------------------------------------------------
(* internal/config: ResolveConfigValues *)

LowerLetters ==
    <<"a", "b", "c", "d", "e", "f", "g", "h", "i", "j", "k", "l", "m",
      "n", "o", "p", "q", "r", "s", "t", "u", "v", "w", "x", "y", "z">>

UpperLetters ==
    <<"A", "B", "C", "D", "E", "F", "G", "H", "I", "J", "K", "L", "M",
      "N", "O", "P", "Q", "R", "S", "T", "U", "V", "W", "X", "Y", "Z">>

\* The character at position i of a text.
CharAt(s, i) == SubSeq(s, i, i)

ToUpperChar(ch) ==
    IF \E i \in 1..26 : LowerLetters[i] = ch
    THEN UpperLetters[CHOOSE i \in 1..26 : LowerLetters[i] = ch]
    ELSE ch

RECURSIVE ToUpperFrom(_, _)
ToUpperFrom(s, i) == IF i > Len(s) THEN "" ELSE ToUpperChar(CharAt(s, i)) \o ToUpperFrom(s, i + 1)

\* strings.ToUpper
ToUpper(s) == ToUpperFrom(s, 1)

RECURSIVE ReplaceAllFrom(_, _, _, _)
ReplaceAllFrom(s, old, new, i) ==
    IF i > Len(s) THEN ""
    ELSE IF i + Len(old) - 1 <= Len(s) /\ SubSeq(s, i, i + Len(old) - 1) = old
    THEN new \o ReplaceAllFrom(s, old, new, i + Len(old))
    ELSE CharAt(s, i) \o ReplaceAllFrom(s, old, new, i + 1)

\* strings.ReplaceAll, for a non-empty old
ReplaceAll(s, old, new) == ReplaceAllFrom(s, old, new, 1)

EnvName(key) == "CONFIG_" \o ToUpper(ReplaceAll(key, "-", "_"))

\* The orders in which a range loop can visit the keys of a Go map.
Orders(S) == {o \in [1..Cardinality(S) -> S] : \A i, j \in 1..Cardinality(S) : o[i] = o[j] => i = j}

\* A resolve in which a schema default, where there is one, stands over the
\* user's value.
ResolveConfigValuesDefaultsLast(config, entries) ==
    LET defaults == {k \in DOMAIN entries : entries[k].default # ""}
        values == [k \in defaults \cup DOMAIN config |->
                     IF k \in defaults THEN entries[k].default
                     ELSE IF config[k].secretKeyRef # "" THEN "$(" \o EnvName(k) \o ")"
                     ELSE config[k].value]
    IN {[values |-> values,
         envVars |-> [i \in 1..Len(order) |->
                        [name |-> EnvName(order[i]), secretKeyRef |-> config[order[i]].secretKeyRef]]] :
          order \in Orders({k \in DOMAIN config : config[k].secretKeyRef # ""})}

\* The outcomes ResolveConfigValues can return: the value map is one, the env
\* vars are appended in the order the loop visits the keys of the config map.
ResolveConfigValues(config, entries) ==
    LET defaults == {k \in DOMAIN entries : entries[k].default # ""}
        values == [k \in defaults \cup DOMAIN config |->
                     IF k \notin DOMAIN config THEN entries[k].default
                     ELSE IF config[k].secretKeyRef # "" THEN "$(" \o EnvName(k) \o ")"
                     ELSE config[k].value]
    IN {[values |-> values,
         envVars |-> [i \in 1..Len(order) |->
                        [name |-> EnvName(order[i]), secretKeyRef |-> config[order[i]].secretKeyRef]]] :
          order \in Orders({k \in DOMAIN config : config[k].secretKeyRef # ""})}

-----------------------------------------------------------------------------
(* steamcmd: CommandBuilder *)

DefaultInstallDir == "/data/server"

\* A Build that asks for the validation before it names the branch.
BuildValidateFirst(config) ==
    <<"+force_install_dir", IF config.InstallDir = "" THEN DefaultInstallDir ELSE config.InstallDir>>
    \o (IF config.Anonymous THEN <<"+login", "anonymous">>
        ELSE <<"+login", "$STEAM_USERNAME", "$STEAM_PASSWORD">>)
    \o <<"+app_update", Itoa(config.AppID)>>
    \o (IF config.Validate THEN <<"validate">> ELSE <<>>)
    \o (IF config.Beta # ""
        THEN <<"-beta", config.Beta>>
             \o (IF config.BetaPassword # "" THEN <<"-betapassword", "$STEAM_BETA_PASSWORD">> ELSE <<>>)
        ELSE <<>>)
    \o <<"+quit">>

Build(config) ==
    <<"+force_install_dir", IF config.InstallDir = "" THEN DefaultInstallDir ELSE config.InstallDir>>
    \o (IF config.Anonymous THEN <<"+login", "anonymous">>
        ELSE <<"+login", "$STEAM_USERNAME", "$STEAM_PASSWORD">>)
    \o <<"+app_update", Itoa(config.AppID)>>
    \o (IF config.Beta # ""
        THEN <<"-beta", config.Beta>>
             \o (IF config.BetaPassword # "" THEN <<"-betapassword", "$STEAM_BETA_PASSWORD">> ELSE <<>>)
        ELSE <<>>)
    \o (IF config.Validate THEN <<"validate">> ELSE <<>>)
    \o <<"+quit">>

-----------------------------------------------------------------------------
(* internal/config: MergeEnvVars *)

RECURSIVE Flatten(_)
Flatten(slices) == IF Len(slices) = 0 THEN <<>> ELSE Head(slices) \o Flatten(Tail(slices))

\* A merge in which the entry already there is kept.
RECURSIVE MergeFromFirstWins(_, _, _)
MergeFromFirstWins(result, envs, i) ==
    IF i > Len(envs) THEN result
    ELSE Only({MergeFromFirstWins(next, envs, i + 1)
               : next \in {IF \E idx \in 1..Len(result) : result[idx].name = envs[i].name
                           THEN result
                           ELSE Append(result, envs[i])}})

\* The loop body on entry i of the entries in the order the loops visit them:
\* seen[name] is the position of the one entry of result with that name.
RECURSIVE MergeFrom(_, _, _)
MergeFrom(result, envs, i) ==
    IF i > Len(envs) THEN result
    ELSE Only({MergeFrom(next, envs, i + 1)
               : next \in {IF \E idx \in 1..Len(result) : result[idx].name = envs[i].name
                           THEN [result EXCEPT ![CHOOSE idx \in 1..Len(result) :
                                                   result[idx].name = envs[i].name] = envs[i]]
                           ELSE Append(result, envs[i])}})

MergeEnvVarsFirstWins(envSlices) == MergeFromFirstWins(<<>>, Flatten(envSlices), 1)

MergeEnvVars(envSlices) == Only({MergeFrom(<<>>, envs, 1) : envs \in {Flatten(envSlices)}})

-----------------------------------------------------------------------------
(* internal/config: InterpolateArgs. The templates are those of text/template *)
(* made of text and of actions that name a field chain, {{.Config.key}}; an   *)
(* action of any other form is a parse error. A chain that is .Config alone   *)
(* is not among the inputs.                                                   *)

Digits == <<"0", "1", "2", "3", "4", "5", "6", "7", "8", "9">>

\* The characters of an identifier.
IdentChars ==
    {LowerLetters[i] : i \in 1..26} \cup {UpperLetters[i] : i \in 1..26} \cup {Digits[i] : i \in 1..10} \cup {"_"}

\* The first position at or after i where sub stands in s: 0 when there is none.
IndexFrom(s, sub, i) ==
    Only({IF hits = {} THEN 0 ELSE CHOOSE j \in hits : \A k \in hits : j <= k
          : hits \in {{j \in i..(Len(s) - Len(sub) + 1) : SubSeq(s, j, j + Len(sub) - 1) = sub}}})

\* The text from position i to position j, "" when there is none.
Slice(s, i, j) == IF i > j THEN "" ELSE SubSeq(s, i, j)

RECURSIVE TrimLeft(_)
TrimLeft(s) == IF Len(s) > 0 /\ CharAt(s, 1) = " " THEN TrimLeft(Slice(s, 2, Len(s))) ELSE s

RECURSIVE TrimRight(_)
TrimRight(s) == IF Len(s) > 0 /\ CharAt(s, Len(s)) = " " THEN TrimRight(Slice(s, 1, Len(s) - 1)) ELSE s

IsIdentifier(s) == Len(s) > 0 /\ \A i \in 1..Len(s) : CharAt(s, i) \in IdentChars

\* The names of the field chain .A.b that starts with the dot at position i:
\* <<>> when the text is no field chain.
RECURSIVE FieldChain(_, _)
FieldChain(body, i) ==
    IF i > Len(body) \/ CharAt(body, i) # "." THEN <<>>
    ELSE Only({
         Only({IF ~IsIdentifier(name) THEN <<>>
               ELSE IF dot = 0 THEN <<name>>
               ELSE Only({IF rest = <<>> THEN <<>> ELSE <<name>> \o rest
                          : rest \in {FieldChain(body, dot)}})
               : name \in {Slice(body, i + 1, IF dot = 0 THEN Len(body) ELSE dot - 1)}})
         : dot \in {IndexFrom(body, ".", i + 1)}})

TextNode(text) == [kind |-> "text", text |-> text, chain |-> <<>>]
FieldNode(chain) == [kind |-> "field", text |-> "", chain |-> chain]

\* template.Parse from position i on: the nodes, or the error.
RECURSIVE ParseFrom(_, _)
ParseFrom(s, i) ==
    IF i > Len(s) THEN [err |-> "", nodes |-> <<>>]
    ELSE Only({
         IF open = 0 THEN [err |-> "", nodes |-> <<TextNode(Slice(s, i, Len(s)))>>]
         ELSE Only({
              IF close = 0 THEN [err |-> "template: arg:1: unclosed action", nodes |-> <<>>]
              ELSE Only({
                   IF chain = <<>>
                   THEN [err |-> "template: arg:1: unexpected text in action", nodes |-> <<>>]
                   ELSE Only({IF rest.err # "" THEN rest
                              ELSE [err |-> "",
                                    nodes |-> (IF open > i THEN <<TextNode(Slice(s, i, open - 1))>> ELSE <<>>)
                                              \o <<FieldNode(chain)>> \o rest.nodes]
                              : rest \in {ParseFrom(s, close + 2)}})
                   : chain \in {Only({FieldChain(body, 1)
                                      : body \in {TrimRight(TrimLeft(Slice(s, open + 2, close - 1)))}})}})
              : close \in {IndexFrom(s, "}}", open + 2)}})
         : open \in {IndexFrom(s, "{{", i)}})

\* A lookup that gives the zero value for a missing key.
evalFieldZeroValue(config, key) == IF key \in DOMAIN config THEN config[key] ELSE ""

\* The field of the map: a missing key prints as "<no value>".
evalField(config, key) == IF key \in DOMAIN config THEN config[key] ELSE "<no value>"

\* template.Execute from node i on: the text written, or the error.
RECURSIVE ExecuteFrom(_, _, _)
ExecuteFrom(nodes, config, i) ==
    IF i > Len(nodes) THEN [err |-> "", out |-> ""]
    ELSE IF nodes[i].kind = "field" /\ nodes[i].chain[1] # "Config"
    THEN [err |-> "template: arg:1: can't evaluate field " \o nodes[i].chain[1]
                    \o " in type config.TemplateData", out |-> ""]
    ELSE IF nodes[i].kind = "field" /\ Len(nodes[i].chain) # 2
    THEN [err |-> "template: arg:1: can't evaluate field " \o nodes[i].chain[3] \o " in type string",
          out |-> ""]
    ELSE Only({IF rest.err # "" THEN rest
               ELSE [rest EXCEPT !.out = (IF nodes[i].kind = "text" THEN nodes[i].text
                                          ELSE evalField(config, nodes[i].chain[2])) \o @]
               : rest \in {ExecuteFrom(nodes, config, i + 1)}})

\* InterpolateArgs from argument i on: the rendered arguments, or the error of
\* the first argument that fails, and then no list.
RECURSIVE InterpolateFrom(_, _, _)
InterpolateFrom(args, config, i) ==
    IF i > Len(args) THEN [err |-> "", result |-> <<>>]
    ELSE Only({
        IF tmpl.err # ""
        THEN [err |-> "failed to parse arg template " \o Quote(args[i]) \o ": " \o tmpl.err, result |-> <<>>]
        ELSE Only({
            IF buf.err # ""
            THEN [err |-> "failed to execute arg template " \o Quote(args[i]) \o ": " \o buf.err,
                  result |-> <<>>]
            ELSE Only({IF rest.err # "" THEN rest ELSE [rest EXCEPT !.result = <<buf.out>> \o @]
                       : rest \in {InterpolateFrom(args, config, i + 1)}})
            : buf \in {ExecuteFrom(tmpl.nodes, config, 1)}})
        : tmpl \in {Only({ParseFrom(text, 1) : text \in {args[i]}})}})

InterpolateArgs(args, config) == InterpolateFrom(args, config, 1)

-----------------------------------------------------------------------------
(* GameDefinition reconciler: validate *)

\* A port check that lets the port number 0 through.
PortErrorsZeroAllowed(ports) ==
    {i \in 1..Len(ports) : ports[i].name = "" \/ ports[i].containerPort < 0 \/ ports[i].containerPort > 65535}

PortErrors(ports) ==
    {i \in 1..Len(ports) : ports[i].name = "" \/ ports[i].containerPort <= 0 \/ ports[i].containerPort > 65535}

MapToErrors(schema) ==
    {"configSchema[" \o k \o "].mapTo.type must be 'arg', 'env', or 'configFile'" :
        k \in {x \in DOMAIN schema.entries :
                  /\ schema.entries[x].mapTo # ""
                  /\ schema.entries[x].mapTo \notin {"arg", "env", "configFile"}}}

\* The errors validate can return: empty when the GameDefinition is valid. Only
\* the configSchema check, a loop over a map, has more than one possible error.
validate(gd) ==
    IF gd.appId <= 0 THEN {"appId must be a positive integer"}
    ELSE IF gd.command = "" THEN {"command is required"}
    ELSE IF Len(gd.ports) = 0 THEN {"at least one port is required"}
    ELSE IF PortErrors(gd.ports) # {}
         THEN LET i == Min(PortErrors(gd.ports)) IN
              IF gd.ports[i].name = ""
              THEN {"port[" \o Itoa(i - 1) \o "].name is required"}
              ELSE {"port[" \o Itoa(i - 1) \o "].containerPort must be between 1 and 65535"}
    ELSE MapToErrors(gd.configSchema)

-----------------------------------------------------------------------------
(* Labels *)

commonLabels(name, gameDefinition) ==
    LET base == ("app.kubernetes.io/name" :> "steamserver"
              @@ "app.kubernetes.io/instance" :> name
              @@ "app.kubernetes.io/managed-by" :> "boilerr")
    IN IF gameDefinition # "" THEN base @@ ("boilerr.dev/game" :> gameDefinition) ELSE base

hasLabels(actual, expected) == \A k \in DOMAIN expected : Lookup(actual, k) = expected[k]

-----------------------------------------------------------------------------
(* internal/resources: the builders. gd is the fetched GameDefinition object,  *)
(* NoGameDef for the nil of fallback mode.                                     *)

PVCLabels(srv) ==
    ("app.kubernetes.io/name" :> "steamserver"
  @@ "app.kubernetes.io/instance" :> ServerName
  @@ "app.kubernetes.io/managed-by" :> "boilerr"
  @@ "boilerr.dev/game" :> srv.spec.game)

ValidQuantities == {"0", "10Gi", "20Gi", "30Gi"}

\* A resolution that asks the template before the instance.
getStorageSizeTemplateFirst(srv, gd) ==
    IF gd.exists /\ gd.spec.defaultStorage # "" /\ gd.spec.defaultStorage \in ValidQuantities
    THEN gd.spec.defaultStorage
    ELSE IF ~srv.spec.storage.isNil THEN srv.spec.storage.size
    ELSE DefaultStorageSize

getStorageSize(srv, gd) ==
    IF ~srv.spec.storage.isNil THEN srv.spec.storage.size
    ELSE IF gd.exists /\ gd.spec.defaultStorage # "" /\ gd.spec.defaultStorage \in ValidQuantities
         THEN gd.spec.defaultStorage
    ELSE DefaultStorageSize

PVCBuildDefaultSize(srv, gd) ==
    [exists |-> TRUE, name |-> PVCName(ServerName), labels |-> PVCLabels(srv), size |-> DefaultStorageSize]

PVCBuild(srv, gd) ==
    LET storageSize == getStorageSize(srv, gd) IN
    IF storageSize = "0" THEN NoObject
    ELSE [exists |-> TRUE, name |-> PVCName(ServerName), labels |-> PVCLabels(srv), size |-> storageSize]

getAppID(srv, gd) ==
    IF ~srv.spec.appId.isNil THEN srv.spec.appId.value
    ELSE IF gd.exists THEN gd.spec.appId
    ELSE 0

StatefulSetLabels(srv, gd) ==
    LET base == PVCLabels(srv) IN
    IF getAppID(srv, gd) > 0 THEN base @@ ("boilerr.dev/app-id" :> Itoa(getAppID(srv, gd))) ELSE base

getImage(srv, gd) ==
    IF srv.spec.image # "" THEN srv.spec.image
    ELSE IF gd.exists /\ gd.spec.image # "" THEN gd.spec.image
    ELSE DefaultImage

getResources(srv, gd) ==
    IF ~srv.spec.resources.isNil THEN srv.spec.resources.value
    ELSE IF gd.exists THEN gd.spec.defaultResources
    ELSE <<>>

ServerFilesMountPath == "/serverfiles"

getInstallDir(srv, gd) ==
    IF gd.exists /\ gd.spec.installDir # "" THEN gd.spec.installDir ELSE ServerFilesMountPath

getCommand(srv, gd) ==
    IF Len(srv.spec.command) > 0 THEN srv.spec.command
    ELSE IF gd.exists /\ gd.spec.command # "" THEN <<gd.spec.command>>
    ELSE <<>>

isAnonymous(srv) == IF srv.spec.anonymous.isNil THEN TRUE ELSE srv.spec.anonymous.value

shouldValidate(srv) == IF srv.spec.validate.isNil THEN TRUE ELSE srv.spec.validate.value

\* A choice of ports that puts the template's after the instance's.
getPortsMerged(srv, gd) ==
    srv.spec.ports \o (IF gd.exists THEN gd.spec.ports ELSE <<>>)

getPorts(srv, gd) ==
    IF Len(srv.spec.ports) > 0 THEN srv.spec.ports
    ELSE IF gd.exists THEN gd.spec.ports
    ELSE <<>>

buildContainerPorts(srv, gd) ==
    [i \in 1..Len(getPorts(srv, gd)) |->
        LET p == getPorts(srv, gd)[i] IN
        [name |-> p.name, containerPort |-> p.containerPort,
         protocol |-> IF p.protocol = "" THEN "UDP" ELSE p.protocol]]

buildVolumes(srv) ==
    <<[name |-> "serverfiles", claimName |-> PVCName(ServerName), configMap |-> ""]>>
    \o (IF Len(srv.spec.configFiles) > 0
        THEN <<[name |-> "config-files", claimName |-> "", configMap |-> ConfigMapName(ServerName)]>>
        ELSE <<>>)

buildVolumeMounts(srv) ==
    <<[name |-> "serverfiles", mountPath |-> ServerFilesMountPath, subPath |-> "", readOnly |-> FALSE]>>
    \o [i \in 1..Len(srv.spec.configFiles) |->
          [name |-> "config-files", mountPath |-> srv.spec.configFiles[i].path,
           subPath |-> "config-" \o Itoa(i - 1), readOnly |-> TRUE]]

\* The outcomes of ResolveConfigValues on the instance's config and the
\* template's schema, an empty one without a template.
resolveConfigValues(srv, gd) ==
    ResolveConfigValues(srv.spec.config, IF gd.exists THEN gd.spec.configSchema.entries ELSE <<>>)

getArgs(srv, gd) ==
    IF Len(srv.spec.args) > 0 THEN srv.spec.args
    ELSE IF gd.exists THEN gd.spec.args
    ELSE <<>>

\* The arguments rendered with the config values: the arguments as they are
\* when the rendering fails.
getInterpolatedArgs(srv, gd, configValues) ==
    Only({IF Len(args) = 0 THEN <<>>
          ELSE Only({IF interpolated.err # "" THEN args ELSE interpolated.result
                     : interpolated \in {Only({InterpolateArgs(args, values)
                                               : values \in {configValues}})}})
          : args \in {getArgs(srv, gd)}})

\* The environment of the main container: the template's entries, the
\* instance's, the bindings of the secret-backed config values.
buildMainEnvVars(srv, gd, configEnvVars) ==
    MergeEnvVars(<<IF gd.exists THEN gd.spec.env ELSE <<>>, srv.spec.env, configEnvVars>>)

buildSteamCMDArgs(srv, gd) ==
    Build([AppID |-> getAppID(srv, gd), InstallDir |-> getInstallDir(srv, gd),
           Anonymous |-> isAnonymous(srv), Beta |-> srv.spec.beta, BetaPassword |-> "",
           Validate |-> shouldValidate(srv)])

\* The environment of the install container: the app id, and the two
\* credentials out of the instance's secret when the login is not anonymous
\* and a secret is named.
buildInitEnvVars(srv, gd) ==
    <<[name |-> "APP_ID", value |-> Itoa(getAppID(srv, gd))]>>
    \o (IF ~isAnonymous(srv) /\ srv.spec.steamCredentialsSecret # ""
        THEN <<[name |-> "STEAM_USERNAME", secretKeyRef |-> srv.spec.steamCredentialsSecret \o "/username"],
               [name |-> "STEAM_PASSWORD", secretKeyRef |-> srv.spec.steamCredentialsSecret \o "/password"]>>
        ELSE <<>>)

StatefulSetBuild(srv, gd) ==
    [exists |-> TRUE, name |-> ServerName,
     labels |-> StatefulSetLabels(srv, gd),
     replicas |-> 1,
     selector |-> StatefulSetLabels(srv, gd),
     template |-> [initContainers |-> <<InitContainerName>>,
                   containers |-> <<GameServerContainerName>>,
                   image |-> getImage(srv, gd),
                   initArgs |-> buildSteamCMDArgs(srv, gd),
                   initEnv |-> buildInitEnvVars(srv, gd),
                   env |-> buildMainEnvVars(srv, gd, Only({o.envVars : o \in resolveConfigValues(srv, gd)})),
                   command |-> getCommand(srv, gd),
                   resources |-> getResources(srv, gd),
                   args |-> getInterpolatedArgs(srv, gd,
                                Only({o.values : o \in resolveConfigValues(srv, gd)})),
                   ports |-> buildContainerPorts(srv, gd),
                   volumeMounts |-> buildVolumeMounts(srv),
                   volumes |-> buildVolumes(srv)],
     status |-> [replicas |-> 0, readyReplicas |-> 0]]

ServiceLabels(srv) ==
    ("app.kubernetes.io/name" :> "steamserver"
  @@ "app.kubernetes.io/instance" :> ServerName
  @@ "app.kubernetes.io/managed-by" :> "boilerr"
  @@ "boilerr.dev/game" :> srv.spec.gameDefinition)

getServiceType(srv) == IF srv.spec.serviceType # "" THEN srv.spec.serviceType ELSE "LoadBalancer"

buildServicePorts(srv, gd) ==
    [i \in 1..Len(getPorts(srv, gd)) |->
        LET p == getPorts(srv, gd)[i] IN
        [name |-> p.name,
         port |-> IF p.servicePort = 0 THEN p.containerPort ELSE p.servicePort,
         targetPort |-> p.containerPort,
         protocol |-> IF p.protocol = "" THEN "UDP" ELSE p.protocol,
         nodePort |-> 0]]

ServiceBuild(srv, gd) ==
    [exists |-> TRUE, name |-> ServerName,
     labels |-> ServiceLabels(srv),
     type |-> getServiceType(srv),
     selector |-> ServiceLabels(srv),
     ports |-> buildServicePorts(srv, gd),
     clusterIP |-> "", ingress |-> <<>>]

ConfigKey(i) == "config-" \o Itoa(i)

ConfigMapBuild(srv) ==
    [exists |-> TRUE, name |-> ConfigMapName(ServerName),
     labels |-> commonLabels(ServerName, srv.spec.gameDefinition),
     data |-> [k \in {ConfigKey(i - 1) : i \in 1..Len(srv.spec.configFiles)} |->
                 srv.spec.configFiles[CHOOSE i \in 1..Len(srv.spec.configFiles) : ConfigKey(i - 1) = k].content]]

-----------------------------------------------------------------------------
(* SteamServer reconciler: the status helpers *)

\* The result of a Get: err is "" (found), "notFound" or "other".
Got(obj) == [err |-> IF obj.exists THEN "" ELSE "notFound", obj |-> obj]
GetFailed == [err |-> "other", obj |-> NoObject]

\* First entry of the named container that decides the loop over the init
\* container statuses: 0 when no entry returns.
InitDeciders(statuses) ==
    {i \in 1..Len(statuses) :
        /\ statuses[i].name = InitContainerName
        /\ \/ statuses[i].state = "running"
           \/ statuses[i].state = "terminated" /\ statuses[i].exitCode # 0}

MainDeciders(statuses) ==
    {i \in 1..Len(statuses) :
        /\ statuses[i].name = GameServerContainerName
        /\ statuses[i].state = "running"}

\* A classifier that does not look at the install container's exit code.
determineStateIgnoringExitCode(stsGet, podGet) ==
    IF stsGet.err # ""
    THEN IF stsGet.err = "notFound" THEN ServerStatePending ELSE ServerStateError
    ELSE IF stsGet.obj.status.readyReplicas = 0 /\ stsGet.obj.status.replicas = 0
    THEN ServerStatePending
    ELSE IF podGet.err # ""
    THEN IF podGet.err = "notFound" THEN ServerStatePending ELSE ServerStateError
    ELSE CASE podGet.obj.phase = "Pending" -> ServerStatePending
           [] podGet.obj.phase = "Running" ->
                LET inits == podGet.obj.initContainerStatuses
                    mains == podGet.obj.containerStatuses
                IN IF \E i \in InitDeciders(inits) : inits[i].state = "running"
                   THEN ServerStateInstalling
                   ELSE IF MainDeciders(mains) # {}
                        THEN IF mains[Min(MainDeciders(mains))].ready
                             THEN ServerStateRunning
                             ELSE ServerStateStarting
                        ELSE ServerStateStarting
           [] podGet.obj.phase = "Failed" -> ServerStateError
           [] OTHER -> ServerStatePending

\* stsGet and podGet are the results of the two Gets; the pod is only looked
\* at when the code reaches its Get.
determineState(stsGet, podGet) ==
    IF stsGet.err # ""
    THEN IF stsGet.err = "notFound" THEN ServerStatePending ELSE ServerStateError
    ELSE IF stsGet.obj.status.readyReplicas = 0 /\ stsGet.obj.status.replicas = 0
    THEN ServerStatePending
    ELSE IF podGet.err # ""
    THEN IF podGet.err = "notFound" THEN ServerStatePending ELSE ServerStateError
    ELSE CASE podGet.obj.phase = "Pending" -> ServerStatePending
           [] podGet.obj.phase = "Running" ->
                LET inits == podGet.obj.initContainerStatuses
                    mains == podGet.obj.containerStatuses
                IN IF InitDeciders(inits) # {}
                   THEN IF inits[Min(InitDeciders(inits))].state = "running"
                        THEN ServerStateInstalling
                        ELSE ServerStateError
                   ELSE IF MainDeciders(mains) # {}
                        THEN IF mains[Min(MainDeciders(mains))].ready
                             THEN ServerStateRunning
                             ELSE ServerStateStarting
                        ELSE ServerStateStarting
           [] podGet.obj.phase = "Failed" -> ServerStateError
           [] OTHER -> ServerStatePending

Assigned(ingress) == {i \in 1..Len(ingress) : ingress[i].ip # "" \/ ingress[i].hostname # ""}

determineAddressFirstEntry(svcGet) ==
    IF svcGet.err # "" THEN ""
    ELSE CASE svcGet.obj.type = "LoadBalancer" ->
                LET ingress == svcGet.obj.ingress IN
                IF Len(ingress) = 0 \/ 1 \notin Assigned(ingress) THEN "<pending>"
                ELSE IF ingress[1].ip # "" THEN ingress[1].ip ELSE ingress[1].hostname
           [] svcGet.obj.type = "NodePort" -> "<node-ip>"
           [] svcGet.obj.type = "ClusterIP" -> svcGet.obj.clusterIP
           [] OTHER -> ""

determineAddress(svcGet) ==
    IF svcGet.err # "" THEN ""
    ELSE CASE svcGet.obj.type = "LoadBalancer" ->
                LET ingress == svcGet.obj.ingress IN
                IF Assigned(ingress) = {} THEN "<pending>"
                ELSE LET i == Min(Assigned(ingress)) IN
                     IF ingress[i].ip # "" THEN ingress[i].ip ELSE ingress[i].hostname
           [] svcGet.obj.type = "NodePort" -> "<node-ip>"
           [] svcGet.obj.type = "ClusterIP" -> svcGet.obj.clusterIP
           [] OTHER -> ""

determinePorts(svcGet) ==
    IF svcGet.err # "" THEN <<>>
    ELSE [i \in 1..Len(svcGet.obj.ports) |->
            LET p == svcGet.obj.ports[i] IN
            [name |-> p.name,
             port |-> IF svcGet.obj.type = "NodePort" /\ p.nodePort # 0 THEN p.nodePort ELSE p.port,
             protocol |-> p.protocol]]

stateMessage(state) ==
    CASE state = ServerStatePending -> "Waiting for resources to be scheduled"
      [] state = ServerStateInstalling -> "SteamCMD is downloading game files"
      [] state = ServerStateStarting -> "Game server is starting up"
      [] state = ServerStateRunning -> "Game server is running"
      [] state = ServerStateError -> "An error occurred"
      [] OTHER -> ""

portsEqual(a, b) ==
    IF Len(a) # Len(b) THEN FALSE
    ELSE \A i \in 1..Len(a) :
            a[i].name = b[i].name /\ a[i].port = b[i].port /\ a[i].protocol = b[i].protocol

\* A comparison that leaves the address out.
statusChangedIgnoringAddress(status, newState, newAddress, newPorts) ==
    \/ status.state # newState
    \/ ~portsEqual(status.ports, newPorts)

statusChanged(status, newState, newAddress, newPorts) ==
    \/ status.state # newState
    \/ status.address # newAddress
    \/ ~portsEqual(status.ports, newPorts)

-----------------------------------------------------------------------------
(* The object store, as the reconcilers see it *)

\* Where one store call of a pass can fail, and whether its status write is
\* rejected (a conflict or a transient error).
FaultPoints ==
    {"none", "getServer", "updateServer", "getGameDef",
     "getConfigMap", "writeConfigMap", "getPVC", "writePVC",
     "getSts", "writeSts", "getSvc", "writeSvc",
     "statusGetSts", "statusGetSvc", "getPod"}

Faults == [at : FaultPoints, status : BOOLEAN]

\* The faults a pass over this instance can meet: the others lie on calls it
\* does not make.
FaultsFor(srv) ==
    IF ~srv.exists THEN [at : {"none", "getServer"}, status : {FALSE}]
    ELSE IF srv.deleting \/ FinalizerName \notin srv.finalizers
         THEN [at : {"none", "getServer", "updateServer"}, status : {FALSE}]
    ELSE {f \in Faults : f.at # "updateServer"}

StoreError == "the server could not complete the request"
ImmutableError == "StatefulSet.apps is invalid: spec: Forbidden: updates to statefulset spec are forbidden"

\* An instance whose deletion is requested goes once its last finalizer does.
StoreServer(srv) == IF srv.deleting /\ srv.finalizers = {} THEN NoServer ELSE srv

\* The store fills in what a Service leaves to it: the cluster address and the
\* node ports of the routed types.
StoreService(obj) ==
    [obj EXCEPT !.clusterIP = IF @ = "" THEN "10.96.0.10" ELSE @,
                !.ports = [i \in 1..Len(obj.ports) |->
                             [obj.ports[i] EXCEPT !.nodePort =
                                 IF obj.type \in {"NodePort", "LoadBalancer"} THEN 30000 + i ELSE 0]],
                !.ingress = IF obj.type = "LoadBalancer" THEN @ ELSE <<>>]

\* The store rejects an update that changes a StatefulSet's selector.
StoreAcceptsSts(existing, updated) == existing.selector = updated.selector

-----------------------------------------------------------------------------
(* SteamServer reconciler: one pass *)

Result(requeue, after, err) == [requeue |-> requeue, requeueAfter |-> after, err |-> err]
Done == Result(FALSE, 0, "")

NoDerived == [state |-> "", address |-> "", ports |-> <<>>]

\* What a pass did about the selector of a StatefulSet it found in the store:
\* stored is the selector the store has, submitted the one of the update.
NoSelectorUpdate == [updated |-> FALSE, stored |-> <<>>, submitted |-> <<>>]

\* The record of a pass: found (the instance was fetched), guard and deleting
\* (as fetched), before (the status as fetched), trouble (what was wrong with
\* the referenced template when the pass began), calls (the store calls on the
\* template and the artifacts, in the order made), serverWrite (the update of
\* the instance itself), statusWrite/statusOk/sent (the status write, whether
\* the store took it, what it carried), derived (the classifier's outcome),
\* kept (no artifact in the store differs from before the pass), failed (a
\* store call failed), afterOk (the step before was a pass that succeeded),
\* selector (the selector of the StatefulSet update, next to the stored one).
NoPass ==
    [branch |-> "none", found |-> FALSE, guard |-> FALSE, deleting |-> FALSE, before |-> NoStatus,
     trouble |-> "", serverWrite |-> "none", serverWriteOk |-> FALSE,
     calls |-> <<>>, statusWrite |-> FALSE, statusOk |-> FALSE, sent |-> NoStatus,
     derived |-> NoDerived, kept |-> TRUE, result |-> Done, failed |-> FALSE, afterOk |-> FALSE,
     selector |-> NoSelectorUpdate]

\* The pass ran to the end of the classification step and returned no error.
PassOk(p) == p.branch = "classified" /\ p.result.err = ""

ContainsFinalizer(srv) == FinalizerName \in srv.finalizers

Call(c, kind, op, ok) ==
    [c EXCEPT !.pass.calls = Append(@, [kind |-> kind, op |-> op, ok |-> ok]),
              !.pass.failed = @ \/ ~ok,
              !.err = IF ok THEN "" ELSE StoreError]

\* A handleDeletion that runs its cleanup and returns, leaving the finalizer.
handleDeletionKeepsFinalizer(c, f) ==
    [c EXCEPT !.pass.branch = "deletion", !.pass.result = Done]

\* A handleDeletion that updates the instance whether or not it holds the
\* finalizer.
handleDeletionUnconditional(c, f) ==
    IF f.at = "updateServer"
    THEN [c EXCEPT !.pass.branch = "deletion", !.pass.serverWrite = "removeFinalizer",
                   !.pass.failed = TRUE, !.pass.result = Result(FALSE, 0, StoreError)]
    ELSE [c EXCEPT !.server = StoreServer([c.server EXCEPT !.finalizers = @ \ {FinalizerName}]),
                   !.pass.branch = "deletion", !.pass.serverWrite = "removeFinalizer",
                   !.pass.serverWriteOk = TRUE, !.pass.result = Done]

handleDeletion(c, f) ==
    IF ContainsFinalizer(c.server)
    THEN IF f.at = "updateServer"
         THEN [c EXCEPT !.pass.branch = "deletion", !.pass.serverWrite = "removeFinalizer",
                        !.pass.failed = TRUE, !.pass.result = Result(FALSE, 0, StoreError)]
         ELSE [c EXCEPT !.server = StoreServer([c.server EXCEPT !.finalizers = @ \ {FinalizerName}]),
                        !.pass.branch = "deletion", !.pass.serverWrite = "removeFinalizer",
                        !.pass.serverWriteOk = TRUE, !.pass.result = Done]
    ELSE [c EXCEPT !.pass.branch = "deletion", !.pass.result = Done]

\* An addFinalizer that returns without asking for the requeue.
addFinalizerNoRequeue(c, f) ==
    IF f.at = "updateServer"
    THEN [c EXCEPT !.pass.branch = "addFinalizer", !.pass.serverWrite = "addFinalizer",
                   !.pass.failed = TRUE, !.pass.result = Result(FALSE, 0, StoreError)]
    ELSE [c EXCEPT !.server.finalizers = @ \cup {FinalizerName},
                   !.pass.branch = "addFinalizer", !.pass.serverWrite = "addFinalizer",
                   !.pass.serverWriteOk = TRUE, !.pass.result = Done]

addFinalizer(c, f) ==
    IF f.at = "updateServer"
    THEN [c EXCEPT !.pass.branch = "addFinalizer", !.pass.serverWrite = "addFinalizer",
                   !.pass.failed = TRUE, !.pass.result = Result(FALSE, 0, StoreError)]
    ELSE [c EXCEPT !.server.finalizers = @ \cup {FinalizerName},
                   !.pass.branch = "addFinalizer", !.pass.serverWrite = "addFinalizer",
                   !.pass.serverWriteOk = TRUE, !.pass.result = Result(TRUE, 0, "")]

\* A fetch that takes a missing template for the fallback mode.
fetchGameDefinitionNotFoundAsNil(srv, gd, f) ==
    IF srv.spec.gameDefinition = ""
    THEN [err |-> "", obj |-> NoGameDef, fetched |-> FALSE, ok |-> TRUE]
    ELSE IF f.at = "getGameDef"
    THEN [err |-> StoreError, obj |-> NoGameDef, fetched |-> TRUE, ok |-> FALSE]
    ELSE IF ~(gd.exists /\ srv.spec.gameDefinition = GameDefName)
    THEN [err |-> "", obj |-> NoGameDef, fetched |-> TRUE, ok |-> TRUE]
    ELSE [err |-> "", obj |-> gd, fetched |-> TRUE, ok |-> TRUE]

\* [err, obj, fetched, ok]: obj is NoGameDef for the nil of fallback mode;
\* fetched says a Get was made, ok that the store answered it.
fetchGameDefinition(srv, gd, f) ==
    IF srv.spec.gameDefinition = ""
    THEN [err |-> "", obj |-> NoGameDef, fetched |-> FALSE, ok |-> TRUE]
    ELSE IF f.at = "getGameDef"
    THEN [err |-> StoreError, obj |-> NoGameDef, fetched |-> TRUE, ok |-> FALSE]
    ELSE IF ~(gd.exists /\ srv.spec.gameDefinition = GameDefName)
    THEN [err |-> "GameDefinition " \o Quote(srv.spec.gameDefinition) \o " not found",
          obj |-> NoGameDef, fetched |-> TRUE, ok |-> TRUE]
    ELSE [err |-> "", obj |-> gd, fetched |-> TRUE, ok |-> TRUE]

setErrorStatus(c, resource, err, f, t) ==
    LET sent == [c.server.status EXCEPT !.state = ServerStateError,
                                        !.message = "Failed to reconcile " \o resource \o ": " \o err,
                                        !.lastUpdated = t]
    IN [c EXCEPT !.server.status = IF f.status THEN @ ELSE sent,
                 !.pass.branch = resource,
                 !.pass.statusWrite = TRUE,
                 !.pass.statusOk = ~f.status,
                 !.pass.sent = sent,
                 !.pass.failed = @ \/ f.status,
                 !.pass.result = Result(FALSE, 0, IF f.status THEN StoreError ELSE err)]

reconcileConfigMap(c, f) ==
    IF Len(c.server.spec.configFiles) = 0 THEN [c EXCEPT !.err = ""]
    ELSE IF f.at = "getConfigMap" THEN Call(c, "ConfigMap", "get", FALSE)
    ELSE LET desired == ConfigMapBuild(c.server)
             g == Call(c, "ConfigMap", "get", TRUE)
         IN IF ~c.configMap.exists
            THEN IF f.at = "writeConfigMap" THEN Call(g, "ConfigMap", "create", FALSE)
                 ELSE [Call(g, "ConfigMap", "create", TRUE) EXCEPT !.configMap = desired]
            ELSE IF c.configMap = desired THEN g
            ELSE IF f.at = "writeConfigMap" THEN Call(g, "ConfigMap", "update", FALSE)
                 ELSE [Call(g, "ConfigMap", "update", TRUE) EXCEPT !.configMap = desired]

reconcilePVC(c, gd, f) ==
    LET desiredPVC == PVCBuild(c.server, gd)
        g == Call(c, "PVC", "get", TRUE)
    IN IF ~desiredPVC.exists THEN [c EXCEPT !.err = ""]
       ELSE IF f.at = "getPVC" THEN Call(c, "PVC", "get", FALSE)
       ELSE IF ~c.pvc.exists
            THEN IF f.at = "writePVC" THEN Call(g, "PVC", "create", FALSE)
                 ELSE [Call(g, "PVC", "create", TRUE) EXCEPT !.pvc = desiredPVC]
            ELSE IF ~hasLabels(c.pvc.labels, desiredPVC.labels)
                 THEN IF f.at = "writePVC" THEN Call(g, "PVC", "update", FALSE)
                      ELSE [Call(g, "PVC", "update", TRUE) EXCEPT !.pvc.labels = desiredPVC.labels]
                 ELSE g

reconcileStatefulSet(c, gd, f) ==
    Only({
    LET g == Call(c, "StatefulSet", "get", TRUE)
    IN IF f.at = "getSts" THEN Call(c, "StatefulSet", "get", FALSE)
       ELSE IF ~c.sts.exists
            THEN IF f.at = "writeSts" THEN Call(g, "StatefulSet", "create", FALSE)
                 ELSE [Call(g, "StatefulSet", "create", TRUE) EXCEPT !.sts = desiredSTS]
            ELSE LET updated == [c.sts EXCEPT !.selector = desiredSTS.selector,
                                              !.template = desiredSTS.template,
                                              !.labels = desiredSTS.labels]
                     u == [g EXCEPT !.pass.selector = [updated |-> TRUE, stored |-> c.sts.selector,
                                                       submitted |-> updated.selector]]
                 IN IF ~StoreAcceptsSts(c.sts, updated)
                    THEN [Call(u, "StatefulSet", "update", FALSE) EXCEPT !.err = ImmutableError]
                    ELSE IF f.at = "writeSts" THEN Call(u, "StatefulSet", "update", FALSE)
                    ELSE [Call(u, "StatefulSet", "update", TRUE) EXCEPT !.sts = updated]
    : desiredSTS \in {StatefulSetBuild(c.server, gd)}})

\* A reconcileService that leaves a Service it finds as it is.
reconcileServiceCreateOnly(c, gd, f) ==
    LET desiredSVC == ServiceBuild(c.server, gd)
        g == Call(c, "Service", "get", TRUE)
    IN IF f.at = "getSvc" THEN Call(c, "Service", "get", FALSE)
       ELSE IF ~c.svc.exists
            THEN IF f.at = "writeSvc" THEN Call(g, "Service", "create", FALSE)
                 ELSE [Call(g, "Service", "create", TRUE) EXCEPT !.svc = StoreService(desiredSVC)]
            ELSE g

reconcileService(c, gd, f) ==
    LET desiredSVC == ServiceBuild(c.server, gd)
        g == Call(c, "Service", "get", TRUE)
    IN IF f.at = "getSvc" THEN Call(c, "Service", "get", FALSE)
       ELSE IF ~c.svc.exists
            THEN IF f.at = "writeSvc" THEN Call(g, "Service", "create", FALSE)
                 ELSE [Call(g, "Service", "create", TRUE) EXCEPT !.svc = StoreService(desiredSVC)]
            ELSE LET updated == [c.svc EXCEPT !.type = desiredSVC.type,
                                              !.selector = desiredSVC.selector,
                                              !.ports = desiredSVC.ports,
                                              !.labels = desiredSVC.labels]
                 IN IF f.at = "writeSvc" THEN Call(g, "Service", "update", FALSE)
                    ELSE [Call(g, "Service", "update", TRUE) EXCEPT !.svc = StoreService(updated)]

\* An updateStatus that asks for the re-check whatever the state.
updateStatusAlwaysRequeue(c, p, f, t) ==
    LET stsGet == IF f.at = "statusGetSts" THEN GetFailed ELSE Got(c.sts)
        svcGet == IF f.at = "statusGetSvc" THEN GetFailed ELSE Got(c.svc)
        podReached == stsGet.err = "" /\ ~(stsGet.obj.status.readyReplicas = 0 /\ stsGet.obj.status.replicas = 0)
        podGet == IF f.at = "getPod" THEN GetFailed ELSE Got(p)
        newState == determineState(stsGet, podGet)
        newAddress == determineAddress(svcGet)
        newPorts == determinePorts(svcGet)
        getFailed == f.at \in {"statusGetSts", "statusGetSvc"} \/ (f.at = "getPod" /\ podReached)
        sent == [state |-> newState, address |-> newAddress, ports |-> newPorts,
                 lastUpdated |-> t, message |-> stateMessage(newState)]
        requeue == Result(FALSE, NotRunningRequeueAfter, "")
        c1 == [c EXCEPT !.pass.branch = "classified",
                        !.pass.derived = [state |-> newState, address |-> newAddress, ports |-> newPorts],
                        !.pass.failed = @ \/ getFailed]
    IN IF statusChanged(c.server.status, newState, newAddress, newPorts)
       THEN IF f.status
            THEN [c1 EXCEPT !.pass.statusWrite = TRUE, !.pass.sent = sent, !.pass.failed = TRUE,
                            !.pass.result = Result(FALSE, 0, StoreError)]
            ELSE [c1 EXCEPT !.server.status = sent,
                            !.pass.statusWrite = TRUE, !.pass.statusOk = TRUE, !.pass.sent = sent,
                            !.pass.result = requeue]
       ELSE [c1 EXCEPT !.pass.result = requeue]

updateStatus(c, p, f, t) ==
    LET stsGet == IF f.at = "statusGetSts" THEN GetFailed ELSE Got(c.sts)
        svcGet == IF f.at = "statusGetSvc" THEN GetFailed ELSE Got(c.svc)
        podReached == stsGet.err = "" /\ ~(stsGet.obj.status.readyReplicas = 0 /\ stsGet.obj.status.replicas = 0)
        podGet == IF f.at = "getPod" THEN GetFailed ELSE Got(p)
        newState == determineState(stsGet, podGet)
        newAddress == determineAddress(svcGet)
        newPorts == determinePorts(svcGet)
        getFailed == f.at \in {"statusGetSts", "statusGetSvc"} \/ (f.at = "getPod" /\ podReached)
        sent == [state |-> newState, address |-> newAddress, ports |-> newPorts,
                 lastUpdated |-> t, message |-> stateMessage(newState)]
        requeue == IF newState # ServerStateRunning THEN Result(FALSE, NotRunningRequeueAfter, "") ELSE Done
        c1 == [c EXCEPT !.pass.branch = "classified",
                        !.pass.derived = [state |-> newState, address |-> newAddress, ports |-> newPorts],
                        !.pass.failed = @ \/ getFailed]
    IN IF statusChanged(c.server.status, newState, newAddress, newPorts)
       THEN IF f.status
            THEN [c1 EXCEPT !.pass.statusWrite = TRUE, !.pass.sent = sent, !.pass.failed = TRUE,
                            !.pass.result = Result(FALSE, 0, StoreError)]
            ELSE [c1 EXCEPT !.server.status = sent,
                            !.pass.statusWrite = TRUE, !.pass.statusOk = TRUE, !.pass.sent = sent,
                            !.pass.result = requeue]
       ELSE [c1 EXCEPT !.pass.result = requeue]

\* An applyArtifacts that goes on after the storage claim failed.
applyArtifactsPastPVC(c, gd, p, f, t) ==
    Only({IF c1.err # "" THEN setErrorStatus(c1, "ConfigMap", c1.err, f, t) ELSE
    Only({
    Only({IF c3.err # "" THEN setErrorStatus(c3, "StatefulSet", c3.err, f, t) ELSE
    Only({IF c4.err # "" THEN setErrorStatus(c4, "Service", c4.err, f, t) ELSE
          updateStatus(c4, p, f, t)
          : c4 \in {reconcileService(c3, gd, f)}})
          : c3 \in {reconcileStatefulSet([c2 EXCEPT !.err = ""], gd, f)}})
          : c2 \in {reconcilePVC(c1, gd, f)}})
          : c1 \in {reconcileConfigMap(c, f)}})

\* Each step works on the outcome of the step before it.
applyArtifacts(c, gd, p, f, t) ==
    Only({IF c1.err # "" THEN setErrorStatus(c1, "ConfigMap", c1.err, f, t) ELSE
    Only({IF c2.err # "" THEN setErrorStatus(c2, "PVC", c2.err, f, t) ELSE
    Only({IF c3.err # "" THEN setErrorStatus(c3, "StatefulSet", c3.err, f, t) ELSE
    Only({IF c4.err # "" THEN setErrorStatus(c4, "Service", c4.err, f, t) ELSE
          updateStatus(c4, p, f, t)
          : c4 \in {reconcileService(c3, gd, f)}})
          : c3 \in {reconcileStatefulSet(c2, gd, f)}})
          : c2 \in {reconcilePVC(c1, gd, f)}})
          : c1 \in {reconcileConfigMap(c, f)}})

\* The errors step 6 can end with for this instance and template: {""} when the
\* config is valid or the template has no schema.
ConfigErrors(srv, gd) ==
    IF gd.exists /\ ~gd.spec.configSchema.isNil /\ ValidateConfig(srv.spec.config, gd.spec.configSchema.entries) # {}
    THEN ValidateConfig(srv.spec.config, gd.spec.configSchema.entries)
    ELSE {""}

\* A pass that goes on from the copy of the instance the pass before was left
\* with when the store rejected its status write.
GetServerStaleCopy(srv, prev) ==
    IF prev.statusWrite /\ ~prev.statusOk THEN [srv EXCEPT !.status = prev.sent] ELSE srv

\* Step 1 of a pass: the instance is read from the store into a new object,
\* whatever the pass before held.
GetServer(srv, prev) == srv

\* One pass of Reconcile over the store as it stands: f is where the store fails
\* in this pass, verr the error ValidateConfig reports if it reports one, t the
\* time of the pass, prev the record of the pass before.
ReconcilePass(f, verr, t, prev) ==
    LET c0 == [server |-> GetServer(server, prev), configMap |-> configMap, pvc |-> pvc, sts |-> sts,
               svc |-> svc, err |-> "", pass |-> [NoPass EXCEPT !.afterOk = PassOk(prev)]]
    IN
    IF f.at = "getServer"
    THEN [c0 EXCEPT !.pass.branch = "getError", !.pass.failed = TRUE,
                    !.pass.result = Result(FALSE, 0, StoreError)]
    ELSE IF ~server.exists
    THEN [c0 EXCEPT !.pass.branch = "notFound"]
    ELSE
    LET c1 == [c0 EXCEPT !.pass.found = TRUE,
                         !.pass.guard = ContainsFinalizer(server),
                         !.pass.deleting = server.deleting,
                         !.pass.before = c0.server.status]
    IN
    IF server.deleting THEN handleDeletion(c1, f)
    ELSE IF ~ContainsFinalizer(server) THEN addFinalizer(c1, f)
    ELSE
    Only({
    Only({
      IF got.err # "" THEN setErrorStatus(c2, "GameDefinition", got.err, f, t)
      ELSE IF got.obj.exists /\ ~got.obj.status.ready
      THEN [setErrorStatus(c2, "GameDefinition",
                           "GameDefinition " \o Quote(server.spec.gameDefinition) \o " is not ready: "
                              \o got.obj.status.message, f, t)
              EXCEPT !.pass.branch = "notReady",
                     !.pass.result = Result(FALSE, NotReadyRequeueAfter, "")]
      ELSE IF got.obj.exists /\ ~got.obj.spec.configSchema.isNil /\ verr # ""
      THEN setErrorStatus(c2, "Config", verr, f, t)
      ELSE applyArtifacts(c2, got.obj, pod, f, t)
      : c2 \in {IF got.fetched THEN [Call(c1, "GameDefinition", "get", got.ok) EXCEPT !.err = ""] ELSE c1}})
      : got \in {fetchGameDefinition(server, gameDef, f)}})

\* What the work queue does with the result of a pass: an error or a requested
\* requeue puts the request back.
WillRetry(result) == result.err # "" \/ result.requeue \/ result.requeueAfter > 0

\* What is wrong with the template the instance references, as the store has it
\* when a pass begins: "" when nothing is, or when no template is referenced.
TemplateTrouble(srv, gd) ==
    IF srv.spec.gameDefinition = "" THEN ""
    ELSE IF ~(gd.exists /\ srv.spec.gameDefinition = GameDefName) THEN "notFound"
    ELSE IF ~gd.status.ready THEN "notReady"
    ELSE IF ~gd.spec.configSchema.isNil
            /\ ValidateConfig(srv.spec.config, gd.spec.configSchema.entries) # {}
    THEN "invalid"
    ELSE ""

\* The pass submitted a StatefulSet update that changes the selector: the store
\* rejects it every time, it is no passing fault.
SelectorRejected(p) == p.selector.updated /\ p.selector.submitted # p.selector.stored

\* A pass with its store faults drawn from F. A store call that fails for a
\* passing fault costs the pass a unit of time.
ReconcileWith(F) ==
    /\ queued
    /\ \E f \in F, verr \in ConfigErrors(server, gameDef) :
        \E out \in {ReconcilePass(f, verr, now, pass)} :
        /\ (out.pass.failed /\ ~SelectorRejected(out.pass)) => now < MaxTime
        /\ now' = IF out.pass.failed /\ ~SelectorRejected(out.pass) THEN now + 1 ELSE now
        /\ server' = out.server
        /\ configMap' = out.configMap
        /\ pvc' = out.pvc
        /\ sts' = out.sts
        /\ svc' = out.svc
        /\ pass' = [out.pass EXCEPT
                       !.trouble = IF server.exists THEN TemplateTrouble(server, gameDef) ELSE "",
                       !.kept = (<<out.configMap, out.pvc, out.sts, out.svc>> = <<configMap, pvc, sts, svc>>)]
        /\ queued' = (WillRetry(out.pass.result)
                        \/ <<out.server, out.configMap, out.pvc, out.sts, out.svc>>
                             # <<server, configMap, pvc, sts, svc>>)
    /\ UNCHANGED <<gameDef, pod, gdQueued, arg, res>>

Reconcile == ReconcileWith(FaultsFor(server))

\* A pass in which every store call succeeds.
ReconcileOk == ReconcileWith({[at |-> "none", status |-> FALSE]})

-----------------------------------------------------------------------------
(* GameDefinition reconciler *)

\* A pass that sends the status of a valid template whatever the stored one.
GameDefReconcilePassAlwaysWrites(gd, ok) ==
    LET errs == validate(gd.spec)
        want == IF errs # {}
                THEN {[ready |-> FALSE, message |-> e] : e \in errs}
                ELSE {[ready |-> TRUE, message |-> GameDefValidatedMessage]}
    IN {[wrote |-> TRUE,
         status |-> IF ok THEN st ELSE gd.status,
         err |-> IF ~ok THEN StoreError ELSE "",
         requeue |-> FALSE] : st \in want}

\* The outcomes of a pass on a stored GameDefinition, ok saying whether the
\* store takes the status update: wrote says an update was sent, status is
\* the stored status after the pass, err and requeue are what Reconcile
\* returns. The message of a failed validation is any of the errors validate
\* can return.
GameDefReconcilePass(gd, ok) ==
    LET errs == validate(gd.spec)
        want == IF errs # {}
                THEN {[ready |-> FALSE, message |-> e] : e \in errs}
                ELSE {[ready |-> TRUE, message |-> GameDefValidatedMessage]}
        writes == errs # {} \/ ~gd.status.ready \/ gd.status.message # GameDefValidatedMessage
    IN {[wrote |-> writes,
         status |-> IF writes /\ ok THEN st ELSE gd.status,
         err |-> IF writes /\ ~ok THEN StoreError ELSE "",
         requeue |-> FALSE] : st \in want}

ServerNamespace == "default"

\* The instances a cluster-wide List returns, in the order it returns them.
ServerItems(srv) ==
    IF srv.exists
    THEN <<[namespace |-> ServerNamespace, name |-> ServerName, spec |-> srv.spec]>>
    ELSE <<>>

ObjectKeyFromObject(obj) == [namespace |-> obj.namespace, name |-> obj.name]

findSteamServersForGameDefInNamespace(items, gameDefName, listOk) ==
    IF ~listOk THEN <<>>
    ELSE LET matching == SelectSeq(items, LAMBDA s :
                             s.spec.gameDefinition = gameDefName /\ s.namespace = ServerNamespace)
         IN [i \in 1..Len(matching) |-> ObjectKeyFromObject(matching[i])]

\* The map function of the GameDefinition watch: one request per listed
\* instance whose reference is the template's name; a failed List yields none.
findSteamServersForGameDef(items, gameDefName, listOk) ==
    IF ~listOk THEN <<>>
    ELSE LET matching == SelectSeq(items, LAMBDA s : s.spec.gameDefinition = gameDefName)
         IN [i \in 1..Len(matching) |-> ObjectKeyFromObject(matching[i])]

\* Whether a template event puts the instance on the queue.
Enqueued(srv, listOk) == findSteamServersForGameDef(ServerItems(srv), GameDefName, listOk) # <<>>

\* The store delivers an event for every change of the object, a change of
\* its status included, and the controller watches without a predicate: a
\* pass that changed the status is followed by another.
GameDefReconcile ==
    /\ gdQueued
    /\ IF ~gameDef.exists
       THEN UNCHANGED <<gameDef, queued, now>> /\ gdQueued' = FALSE
       ELSE \E ok \in BOOLEAN :
            \E out \in GameDefReconcilePass(gameDef, ok) :
                 /\ out.err # "" => now < MaxTime
                 /\ now' = IF out.err # "" THEN now + 1 ELSE now
                 /\ gameDef' = [gameDef EXCEPT !.status = out.status]
                 /\ gdQueued' = (out.err # "" \/ out.requeue \/ gameDef' # gameDef)
                 /\ \E listOk \in BOOLEAN :
                        queued' = (queued \/ (gameDef' # gameDef /\ Enqueued(server, listOk)))
    /\ pass' = IF gameDef' # gameDef THEN NoPass ELSE pass
    /\ UNCHANGED <<server, configMap, pvc, sts, svc, pod, arg, res>>

-----------------------------------------------------------------------------
(* The world around the reconcilers: users, the store, the platform's own     *)
(* controllers                                                                *)

\* An event of the world takes one unit of time, and ends the record of the
\* last pass. The model follows the world up to time MaxTime.
World == now < MaxTime /\ now' = now + 1 /\ pass' = NoPass /\ UNCHANGED <<arg, res>>

Referencing(srv) == srv.exists /\ srv.spec.gameDefinition = GameDefName

CreateServer ==
    /\ ~server.exists
    /\ \E sp \in ServerSpecs, fin \in {{}, {OtherFinalizer}} :
        server' = [exists |-> TRUE, deleting |-> FALSE, finalizers |-> fin, spec |-> sp, status |-> NoStatus]
    /\ queued' = TRUE
    /\ World
    /\ UNCHANGED <<gameDef, configMap, pvc, sts, svc, pod, gdQueued>>

EditServer ==
    /\ server.exists
    /\ \E sp \in ServerSpecs \ {server.spec} : server' = [server EXCEPT !.spec = sp]
    /\ queued' = TRUE
    /\ World
    /\ UNCHANGED <<gameDef, configMap, pvc, sts, svc, pod, gdQueued>>

DeleteServer ==
    /\ server.exists
    /\ ~server.deleting
    /\ server' = StoreServer([server EXCEPT !.deleting = TRUE])
    /\ queued' = TRUE
    /\ World
    /\ UNCHANGED <<gameDef, configMap, pvc, sts, svc, pod, gdQueued>>

\* Whoever owns the other finalizer removes it once deletion is requested; the
\* model's clock does not count this step.
RemoveOtherFinalizer ==
    /\ server.exists
    /\ server.deleting
    /\ OtherFinalizer \in server.finalizers
    /\ server' = StoreServer([server EXCEPT !.finalizers = @ \ {OtherFinalizer}])
    /\ queued' = TRUE
    /\ pass' = NoPass
    /\ UNCHANGED <<gameDef, configMap, pvc, sts, svc, pod, gdQueued, now, arg, res>>

\* Ownership cascade: the children of an instance that is gone are removed.
GarbageCollect ==
    /\ ~server.exists
    /\ configMap.exists \/ pvc.exists \/ sts.exists \/ svc.exists \/ pod.exists
    /\ configMap' = NoObject
    /\ pvc' = NoObject
    /\ sts' = NoObject
    /\ svc' = NoObject
    /\ pod' = NoObject
    /\ queued' = TRUE
    /\ World
    /\ UNCHANGED <<server, gameDef, gdQueued>>

ApplyGameDef ==
    /\ \E gs \in GameDefSpecs :
        /\ ~(gameDef.exists /\ gameDef.spec = gs)
        /\ gameDef' = [exists |-> TRUE, spec |-> gs,
                       status |-> IF gameDef.exists THEN gameDef.status ELSE NoGameDef.status]
    /\ gdQueued' = TRUE
    /\ \E listOk \in BOOLEAN : queued' = (queued \/ Enqueued(server, listOk))
    /\ World
    /\ UNCHANGED <<server, configMap, pvc, sts, svc, pod>>

DeleteGameDef ==
    /\ gameDef.exists
    /\ gameDef' = NoGameDef
    /\ gdQueued' = TRUE
    /\ \E listOk \in BOOLEAN : queued' = (queued \/ Enqueued(server, listOk))
    /\ World
    /\ UNCHANGED <<server, configMap, pvc, sts, svc, pod>>

\* The StatefulSet controller creates the pod and counts it.
StsController ==
    /\ sts.exists
    /\ ~pod.exists
    /\ pod' = PodPending
    /\ sts' = [sts EXCEPT !.status.replicas = 1]
    /\ queued' = TRUE
    /\ World
    /\ UNCHANGED <<server, gameDef, configMap, pvc, svc, gdQueued>>

PodIsReady(p) ==
    p.phase = "Running" /\ \E i \in 1..Len(p.containerStatuses) : p.containerStatuses[i].ready

\* The kubelet moves the pod on; the StatefulSet's ready count follows. Pods are
\* not watched by the reconciler, the StatefulSet is.
Kubelet ==
    /\ pod.exists
    /\ sts.exists
    /\ \E p \in PodStatuses \ {pod} :
        /\ pod' = p
        /\ sts' = [sts EXCEPT !.status.readyReplicas = IF PodIsReady(p) THEN 1 ELSE 0]
    /\ queued' = (queued \/ sts' # sts)
    /\ World
    /\ UNCHANGED <<server, gameDef, configMap, pvc, svc, gdQueued>>

\* The cloud's load balancer assigns the Service an address.
LoadBalancer ==
    /\ svc.exists
    /\ svc.type = "LoadBalancer"
    /\ svc.ingress = <<>>
    /\ svc' = [svc EXCEPT !.ingress = <<[ip |-> "203.0.113.7", hostname |-> ""]>>]
    /\ queued' = TRUE
    /\ World
    /\ UNCHANGED <<server, gameDef, configMap, pvc, sts, pod, gdQueued>>

\* Time passes and nothing else happens.
Tick ==
    /\ now < MaxTime
    /\ now' = now + 1
    /\ UNCHANGED <<server, gameDef, configMap, pvc, sts, svc, pod, queued, gdQueued, pass, arg, res>>

-----------------------------------------------------------------------------
(* The operator at work *)

Init ==
    /\ server = NoServer
    /\ gameDef = NoGameDef
    /\ configMap = NoObject
    /\ pvc = NoObject
    /\ sts = NoObject
    /\ svc = NoObject
    /\ pod = NoObject
    /\ queued = FALSE
    /\ gdQueued = FALSE
    /\ now = 0
    /\ pass = NoPass
    /\ arg = <<>>
    /\ res = <<>>

Next ==
    \/ Reconcile
    \/ GameDefReconcile
    \/ CreateServer
    \/ EditServer
    \/ DeleteServer
    \/ RemoveOtherFinalizer
    \/ GarbageCollect
    \/ ApplyGameDef
    \/ DeleteGameDef
    \/ StsController
    \/ Kubelet
    \/ LoadBalancer
    \/ Tick

Spec == Init /\ [][Next]_vars

-----------------------------------------------------------------------------
(* Properties of the SteamServer reconciler's pass *)

\* The creates and updates of artifacts a pass made, in order.
Writes(p) == SelectSeq(p.calls, LAMBDA c : c.op \in {"create", "update"})

\* The pass fetched a live instance that carries the finalizer, so it went on
\* to the template.
ReachedTemplate(p) == p.found /\ ~p.deleting /\ p.guard

\* The pass got the template from the store.
TemplateFound(p) ==
    \E i \in 1..Len(p.calls) : p.calls[i] = [kind |-> "GameDefinition", op |-> "get", ok |-> TRUE]

Rank(kind) ==
    CASE kind = "GameDefinition" -> 0
      [] kind = "ConfigMap" -> 1
      [] kind = "PVC" -> 2
      [] kind = "StatefulSet" -> 3
      [] kind = "Service" -> 4

\* C1: a pass that finds the referenced template missing, not ready, or the
\* instance config invalid against its schema sends the status with state
\* Error (stored when the store takes the write) and creates or updates none of
\* ConfigMap, PVC, StatefulSet and Service.
C1_TemplateGate ==
    (ReachedTemplate(pass) /\ pass.trouble # "") =>
        /\ Writes(pass) = <<>>
        /\ pass.kept
        /\ pass.statusWrite
        /\ pass.sent.state = ServerStateError
        /\ pass.statusOk => server.status.state = ServerStateError

\* A pass stopped at a missing template while the artifacts of an earlier spec
\* are in the store.
C1_Witness ==
    /\ ReachedTemplate(pass)
    /\ pass.trouble = "notFound"
    /\ pass.statusOk
    /\ server.status.state = ServerStateError
    /\ sts.exists

\* C2: the calls of a pass follow the order ConfigMap, PVC, StatefulSet,
\* Service; a call that fails is the last call of the pass, and the status is
\* then sent with state Error and a message naming the kind that failed; a pass
\* that reaches classification has applied the StatefulSet and the Service.
C2_ApplyOrder ==
    LET cs == pass.calls IN
    /\ \A i, j \in 1..Len(cs) : i < j => Rank(cs[i].kind) <= Rank(cs[j].kind)
    /\ \A i, j \in 1..Len(cs) : (i < j /\ cs[i].kind = cs[j].kind) => (cs[i].op = "get" /\ cs[j].op # "get")
    /\ \A i \in 1..Len(cs) : (~cs[i].ok /\ Rank(cs[i].kind) > 0) =>
          /\ i = Len(cs)
          /\ pass.statusWrite
          /\ pass.sent.state = ServerStateError
          /\ pass.sent.message \in {"Failed to reconcile " \o cs[i].kind \o ": " \o e :
                                       e \in {StoreError, ImmutableError}}
          /\ pass.statusOk => server.status = pass.sent
    /\ pass.branch = "classified" =>
          /\ \A i \in 1..Len(cs) : cs[i].ok
          /\ \A k \in {"StatefulSet", "Service"} : \E i \in 1..Len(cs) : cs[i].kind = k

\* The ConfigMap was created, the PVC's create failed, and nothing follows.
C2_Witness ==
    /\ Len(pass.calls) > 0
    /\ pass.calls[Len(pass.calls)] = [kind |-> "PVC", op |-> "create", ok |-> FALSE]
    /\ \E i \in 1..Len(pass.calls) : pass.calls[i] = [kind |-> "ConfigMap", op |-> "create", ok |-> TRUE]
    /\ configMap.exists
    /\ ~pvc.exists
    /\ ~sts.exists
    /\ server.status.message = "Failed to reconcile PVC: " \o StoreError

\* C3: a pass over an instance that is not being deleted and lacks the
\* finalizer only updates the instance with the finalizer added: once the store
\* takes the update the finalizer is stored and the result asks for an
\* immediate requeue, otherwise the result is the error; no template fetch, no
\* artifact call, no status write. And a pass makes artifact calls only when
\* the instance it fetched carried the finalizer.
C3_GuardFirst ==
    /\ (pass.found /\ ~pass.deleting /\ ~pass.guard) =>
          /\ pass.serverWrite = "addFinalizer"
          /\ pass.calls = <<>>
          /\ ~pass.statusWrite
          /\ pass.kept
          /\ server.exists
          /\ server.status = pass.before
          /\ IF pass.serverWriteOk
             THEN FinalizerName \in server.finalizers /\ pass.result = Result(TRUE, 0, "")
             ELSE FinalizerName \notin server.finalizers /\ pass.result.err # ""
    /\ pass.calls # <<>> => (pass.guard /\ ~pass.deleting)

\* The finalizer was just added and nothing has been created yet.
C3_Witness ==
    /\ pass.found
    /\ ~pass.deleting
    /\ ~pass.guard
    /\ pass.serverWriteOk
    /\ FinalizerName \in server.finalizers
    /\ pass.result.requeue
    /\ ~sts.exists

\* C4: a pass over an instance whose deletion is requested fetches no template,
\* makes no artifact call and no status write, and never adds the finalizer;
\* it updates the instance, to remove the finalizer, exactly when the instance
\* it fetched carried the finalizer.
C4_DeletionFrame ==
    (pass.found /\ pass.deleting) =>
        /\ pass.calls = <<>>
        /\ ~pass.statusWrite
        /\ pass.kept
        /\ server.exists => (server.status = pass.before /\ server.deleting)
        /\ pass.serverWrite \in {"none", "removeFinalizer"}
        /\ (pass.serverWrite = "removeFinalizer") <=> pass.guard
        /\ ~pass.guard => (server.exists /\ FinalizerName \notin server.finalizers)
        /\ (pass.guard /\ pass.serverWriteOk) => (server.exists => FinalizerName \notin server.finalizers)

\* A pass over an instance that is being deleted and is held by another
\* finalizer only: it writes nothing.
C4_Witness ==
    /\ pass.found
    /\ pass.deleting
    /\ ~pass.guard
    /\ pass.serverWrite = "none"
    /\ server.exists
    /\ OtherFinalizer \in server.finalizers

-----------------------------------------------------------------------------
(* Deletion under fair scheduling *)

\* The work queue hands a queued request to a worker, and the store's updates
\* succeed in the end: a pass whose store calls all succeed is not put off
\* forever. The owner of another finalizer lets go of it.
LiveSpec == Spec /\ WF_vars(ReconcileOk) /\ WF_vars(RemoveOtherFinalizer)

DeletionPending == server.exists /\ server.deleting /\ FinalizerName \in server.finalizers

\* C5: under LiveSpec, an instance that carries the finalizer and whose
\* deletion is requested comes to be without the finalizer, and comes to be
\* gone from the store.
C5_DeletionCompletes ==
    /\ DeletionPending ~> (~server.exists \/ FinalizerName \notin server.finalizers)
    /\ DeletionPending ~> ~server.exists

\* The pass that removed the finalizer from an instance being deleted, after
\* which the store let the instance go.
C5_Witness ==
    /\ pass.found
    /\ pass.deleting
    /\ pass.guard
    /\ pass.serverWrite = "removeFinalizer"
    /\ pass.serverWriteOk
    /\ ~server.exists

-----------------------------------------------------------------------------
(* Creation under fair scheduling *)

\* An instance that names a storage size and references a template the store
\* has as ready, with at least one resolved port and a config the template's
\* schema accepts, and none of its artifacts in the store yet.
JustCreated ==
    /\ server.exists
    /\ ~server.deleting
    /\ Referencing(server)
    /\ gameDef.exists
    /\ gameDef.status.ready
    /\ TemplateTrouble(server, gameDef) = ""
    /\ ~server.spec.storage.isNil
    /\ server.spec.storage.size # "0"
    /\ Len(getPorts(server, gameDef)) > 0
    /\ ~configMap.exists /\ ~pvc.exists /\ ~sts.exists /\ ~svc.exists

\* The instance and its artifacts as the creation test expects them.
Established ==
    /\ FinalizerName \in server.finalizers
    /\ sts.exists
    /\ sts.name = ServerName
    /\ sts.replicas = 1
    /\ Len(sts.template.initContainers) = 1
    /\ Len(sts.template.containers) = 1
    /\ svc.exists
    /\ svc.name = ServerName
    /\ Len(svc.ports) = Len(getPorts(server, gameDef))
    /\ pvc.exists
    /\ pvc.name = ServerName \o "-data"
    /\ pvc.size = server.spec.storage.size

\* The instance is still one the claim speaks of: not deleted, and with a
\* ready template, a storage size, a resolved port and an accepted config.
StillWanted ==
    /\ server.exists
    /\ ~server.deleting
    /\ Referencing(server)
    /\ gameDef.exists
    /\ gameDef.status.ready
    /\ TemplateTrouble(server, gameDef) = ""
    /\ ~server.spec.storage.isNil
    /\ server.spec.storage.size # "0"
    /\ Len(getPorts(server, gameDef)) > 0

\* C33: under LiveSpec, an instance just created with a storage size, that
\* references a ready template and has a resolved port, comes to carry the
\* finalizer and to have a StatefulSet of its name with one replica, one init
\* container and one main container, a Service of its name with a port per
\* resolved port, and a PVC named name-data of the size of the spec, unless
\* it is deleted or stops being such an instance before.
C33_ChildrenCreated == JustCreated ~> (Established \/ ~StillWanted)

\* The instance and its artifacts stand, the pass that got there ended well.
C33_Witness ==
    /\ Established
    /\ ~server.deleting
    /\ Referencing(server)
    /\ gameDef.exists
    /\ gameDef.status.ready
    /\ ~server.spec.storage.isNil
    /\ pvc.size = "30Gi"
    /\ PassOk(pass)

-----------------------------------------------------------------------------
(* An edit of the ports under fair scheduling: one instance of a ready        *)
(* template, created and then edited in its port list only.                   *)

PortLists == {<<>>, <<PortGame>>, <<PortGame, PortQuery>>}

SpecWithPorts(pl) == [SpecBasic EXCEPT !.storage = [isNil |-> FALSE, size |-> "10Gi"], !.ports = pl]

PortEditInit ==
    /\ server = NoServer
    /\ gameDef = [exists |-> TRUE, spec |-> GDValid,
                  status |-> [ready |-> TRUE, message |-> GameDefValidatedMessage]]
    /\ configMap = NoObject
    /\ pvc = NoObject
    /\ sts = NoObject
    /\ svc = NoObject
    /\ pod = NoObject
    /\ queued = FALSE
    /\ gdQueued = FALSE
    /\ now = 0
    /\ pass = NoPass
    /\ arg = <<>>
    /\ res = <<>>

CreateWithPorts ==
    /\ ~server.exists
    /\ \E pl \in PortLists :
        server' = [exists |-> TRUE, deleting |-> FALSE, finalizers |-> {},
                   spec |-> SpecWithPorts(pl), status |-> NoStatus]
    /\ queued' = TRUE
    /\ World
    /\ UNCHANGED <<gameDef, configMap, pvc, sts, svc, pod, gdQueued>>

EditPorts ==
    /\ server.exists
    /\ \E pl \in PortLists \ {server.spec.ports} : server' = [server EXCEPT !.spec.ports = pl]
    /\ queued' = TRUE
    /\ World
    /\ UNCHANGED <<gameDef, configMap, pvc, sts, svc, pod, gdQueued>>

PortEditNext ==
    \/ Reconcile
    \/ CreateWithPorts
    \/ EditPorts
    \/ StsController
    \/ Kubelet
    \/ LoadBalancer
    \/ Tick

PortEditSpec == PortEditInit /\ [][PortEditNext]_vars /\ WF_vars(ReconcileOk)

\* The Service has a port for each port of the list pl, or of the template's
\* list when pl is empty, in that order: the name, the container port as the
\* target, and the service port, which is the container port when none is set.
ServicePortsAre(pl) ==
    LET resolved == IF Len(pl) > 0 THEN pl ELSE gameDef.spec.ports IN
    /\ svc.exists
    /\ Len(svc.ports) = Len(resolved)
    /\ \A i \in 1..Len(resolved) :
          /\ svc.ports[i].name = resolved[i].name
          /\ svc.ports[i].targetPort = resolved[i].containerPort
          /\ svc.ports[i].port = IF resolved[i].servicePort = 0 THEN resolved[i].containerPort
                                 ELSE resolved[i].servicePort

\* C34: under PortEditSpec, an instance whose Service does not have the ports
\* of its port list, as after an edit of the list, comes to have a Service
\* whose ports are those resolved from the list as it then is.
C34_PortsFollowEdit ==
    (server.exists /\ svc.exists /\ ~ServicePortsAre(server.spec.ports))
        ~> ServicePortsAre(server.spec.ports)

\* A pass found the Service of an instance edited to two ports and updated
\* it: the Service has the two ports.
C34_Witness ==
    /\ server.exists
    /\ server.spec.ports = <<PortGame, PortQuery>>
    /\ \E i \in 1..Len(pass.calls) : pass.calls[i] = [kind |-> "Service", op |-> "update", ok |-> TRUE]
    /\ ~pass.kept
    /\ ServicePortsAre(<<PortGame, PortQuery>>)
    /\ Len(svc.ports) = 2

-----------------------------------------------------------------------------
(* Properties of the pass: idempotence, the status write, the re-check *)

\* C6: a pass that follows a successful pass with nothing changed in between,
\* and meets no store failure, makes no create or update of an artifact and no
\* status write.
C6_Idempotent ==
    (pass.afterOk /\ pass.found /\ ~pass.failed) =>
        /\ Writes(pass) = <<>>
        /\ ~pass.statusWrite

FoundNotReady(p) == ReachedTemplate(p) /\ TemplateFound(p) /\ p.trouble = "notReady"

\* C8, as claimed: the result carries the delay 30 exactly when the template was
\* found not ready, the delay 10 exactly when the pass reached classification
\* and derived a state other than Running, and no delay otherwise; a pass that
\* derives Running asks for no re-check.
C8_DelaysAsClaimed ==
    pass.branch # "none" =>
        /\ pass.result.requeueAfter \in {0, 10, 30}
        /\ (pass.result.requeueAfter = 30) <=> FoundNotReady(pass)
        /\ (pass.result.requeueAfter = 10) <=>
              (pass.branch = "classified" /\ pass.derived.state # ServerStateRunning)
        /\ (pass.branch = "classified" /\ pass.derived.state = ServerStateRunning) =>
              (pass.result.requeueAfter = 0 /\ ~pass.result.requeue)

\* C8, amended: the delay 10 is carried exactly when the pass reached
\* classification, derived a state other than Running, and the store took the
\* status write if one was made; a classification whose status write is
\* rejected returns the error and no delay. The rest is as claimed.
C8_Delays ==
    pass.branch # "none" =>
        /\ pass.result.requeueAfter \in {0, 10, 30}
        /\ (pass.result.requeueAfter = 30) <=> FoundNotReady(pass)
        /\ (pass.result.requeueAfter = 10) <=>
              /\ pass.branch = "classified"
              /\ pass.derived.state # ServerStateRunning
              /\ pass.statusWrite => pass.statusOk
        /\ (pass.branch = "classified" /\ pass.statusWrite /\ ~pass.statusOk) =>
              (pass.result.requeueAfter = 0 /\ pass.result.err # "")
        /\ (pass.branch = "classified" /\ pass.derived.state = ServerStateRunning) =>
              (pass.result.requeueAfter = 0 /\ ~pass.result.requeue)

\* A classification that derived a state other than Running and whose status
\* write the store rejected: the result is the error, without a delay.
C8_Witness ==
    /\ pass.branch = "classified"
    /\ pass.derived.state # ServerStateRunning
    /\ pass.statusWrite
    /\ ~pass.statusOk
    /\ pass.result.requeueAfter = 0
    /\ pass.result.err # ""

\* C9: a pass stopped by a validation error of the instance config returns a
\* result that asks for no retry.
C9_ValidationNotRetried ==
    (ReachedTemplate(pass) /\ TemplateFound(pass) /\ pass.trouble = "invalid" /\ pass.statusOk) =>
        ~WillRetry(pass.result)

-----------------------------------------------------------------------------
(* Properties of the artifacts: selector, labels *)

\* C11: a pass that finds the StatefulSet in the store computes for it the
\* selector the store has, the one of its creation, and so submits no update
\* whose selector differs from the stored one.
C11_SelectorStable ==
    pass.selector.updated => pass.selector.submitted = pass.selector.stored

\* The keys of the identity label set: system marker, instance name,
\* managed-by marker, template reference.
IdentityKeys ==
    {"app.kubernetes.io/name", "app.kubernetes.io/instance", "app.kubernetes.io/managed-by", "boilerr.dev/game"}

\* The artifact of a kind, as the store has it.
Artifact(kind) ==
    CASE kind = "ConfigMap" -> configMap
      [] kind = "PVC" -> pvc
      [] kind = "StatefulSet" -> sts
      [] kind = "Service" -> svc

\* The kinds of artifact the pass looked up and, where needed, wrote.
Applied(p) == {p.calls[i].kind : i \in 1..Len(p.calls)} \ {"GameDefinition"}

\* C12: after a pass that applied its artifacts without an error, each of them
\* carries a label set with exactly the four identity keys, and the label sets
\* of any two of them are equal.
C12_IdentityLabels ==
    PassOk(pass) =>
        \A k1, k2 \in Applied(pass) :
            /\ DOMAIN Artifact(k1).labels = IdentityKeys
            /\ Artifact(k1).labels = Artifact(k2).labels

-----------------------------------------------------------------------------
(* Properties of the pass: the config gate *)

\* The options of the template's schema: none when it declares no schema.
SchemaOptions(gd) == IF gd.spec.configSchema.isNil THEN {} ELSE DOMAIN gd.spec.configSchema.entries

\* C14: a pass that got the referenced template, ready, for an instance whose
\* config has a key that is no option of the template's schema, sends the
\* status with state Error and creates or updates no artifact.
C14_UnknownKeyRejected ==
    (/\ ReachedTemplate(pass)
     /\ TemplateFound(pass)
     /\ pass.trouble \notin {"notFound", "notReady"}
     /\ DOMAIN server.spec.config \ SchemaOptions(gameDef) # {}) =>
        /\ pass.statusWrite
        /\ pass.sent.state = ServerStateError
        /\ Writes(pass) = <<>>

-----------------------------------------------------------------------------
(* Properties of the pass: rendering the startup arguments *)

\* One of the argument templates the workload is built from does not parse.
MalformedArgs(srv, gd) ==
    \E i \in 1..Len(getArgs(srv, gd)) : ParseFrom(getArgs(srv, gd)[i], 1).err # ""

\* C20: a pass that got the template, passed the config gate and came to the
\* workload step with a malformed argument template sends the status with
\* state Error, and the stored workload does not carry the unrendered
\* arguments.
C20_MalformedArgsFail ==
    (/\ ReachedTemplate(pass)
     /\ TemplateFound(pass)
     /\ pass.trouble = ""
     /\ "StatefulSet" \in Applied(pass)
     /\ MalformedArgs(server, gameDef)) =>
        /\ pass.statusWrite
        /\ pass.sent.state = ServerStateError
        /\ sts.exists => sts.template.args # getArgs(server, gameDef)

-----------------------------------------------------------------------------
(* Properties of the pass: the storage claim *)

\* The pass came to the storage step: it had the template it needed, the
\* config gate let it through, and the ConfigMap step did not fail.
ReachedPVC(p) ==
    /\ ReachedTemplate(p)
    /\ p.trouble = ""
    /\ server.spec.gameDefinition # "" => TemplateFound(p)
    /\ \A i \in 1..Len(p.calls) : p.calls[i].kind = "ConfigMap" => p.calls[i].ok

\* The size the claim names: the instance's, else the template's default,
\* else 20Gi.
ClaimedSize ==
    IF ~server.spec.storage.isNil THEN server.spec.storage.size
    ELSE IF server.spec.gameDefinition # "" /\ gameDef.spec.defaultStorage # ""
         THEN gameDef.spec.defaultStorage
    ELSE "20Gi"

-----------------------------------------------------------------------------
(* Properties of the pass: the generated-file bundle *)

\* The file entries of the resolved spec: the template's static files, then
\* the instance's. No schema of the model maps an option to a file.
ResolvedFiles ==
    (IF server.spec.gameDefinition # "" THEN gameDef.spec.configFiles ELSE <<>>) \o server.spec.configFiles

\* C25: a pass that applies its artifacts without an error makes calls for
\* the ConfigMap exactly when the template and the instance have a file entry
\* between them; the ConfigMap then holds the content of file i under the key
\* config-i, and the workload mounts that key read-only at the file's path.
C25_ConfigBundle ==
    (/\ ReachedTemplate(pass)
     /\ pass.trouble = ""
     /\ server.spec.gameDefinition # "" => TemplateFound(pass)
     /\ PassOk(pass)) =>
        /\ "ConfigMap" \in Applied(pass) <=> ResolvedFiles # <<>>
        /\ ResolvedFiles # <<>> =>
             /\ configMap.exists
             /\ DOMAIN configMap.data = {"config-" \o Itoa(i - 1) : i \in 1..Len(ResolvedFiles)}
             /\ \A i \in 1..Len(ResolvedFiles) :
                   /\ configMap.data["config-" \o Itoa(i - 1)] = ResolvedFiles[i].content
                   /\ \E j \in 1..Len(sts.template.volumeMounts) :
                         sts.template.volumeMounts[j]
                           = [name |-> "config-files", mountPath |-> ResolvedFiles[i].path,
                              subPath |-> "config-" \o Itoa(i - 1), readOnly |-> TRUE]

-----------------------------------------------------------------------------
(* Properties of the GameDefinition reconciler *)

\* C27: a pass that stores a status for a template failing validation stores
\* ready = false with the validation error as the message, and leaves no
\* request for the template behind: no pass runs on it again before an edit.
C27_FailedValidationTerminal ==
    [][(/\ gameDef.exists
        /\ gameDef'.exists
        /\ gameDef'.spec = gameDef.spec
        /\ gameDef'.status # gameDef.status
        /\ validate(gameDef.spec) # {}) =>
            /\ ~gameDef'.status.ready
            /\ gameDef'.status.message \in validate(gameDef.spec)
            /\ ~gdQueued']_vars

-----------------------------------------------------------------------------
(* The template's ready signal and the instance's pass *)

\* The pass got the template from the store and created or updated an
\* artifact built from it.
AppliedFromTemplate(p) ==
    /\ TemplateFound(p)
    /\ \E i \in 1..Len(p.calls) : p.calls[i].op \in {"create", "update"} /\ p.calls[i].ok

\* C35: a pass that creates or updates an artifact built from the template
\* the instance references works from a template whose spec passes the
\* validation of the GameDefinition reconciler.
C35_InvalidTemplateNeverApplied ==
    (Referencing(server) /\ gameDef.exists /\ AppliedFromTemplate(pass)) => validate(gameDef.spec) = {}

-----------------------------------------------------------------------------
(* The claim behind the workload's data volume *)

\* The pass created or updated the StatefulSet.
WroteStatefulSet(p) ==
    \E i \in 1..Len(p.calls) :
        p.calls[i].kind = "StatefulSet" /\ p.calls[i].op \in {"create", "update"} /\ p.calls[i].ok

\* The names of the claims the volumes of the stored StatefulSet refer to.
ClaimsReferenced ==
    {sts.template.volumes[i].claimName :
        i \in {j \in 1..Len(sts.template.volumes) : sts.template.volumes[j].claimName # ""}}

\* C37: after a pass that created or updated the StatefulSet, every claim a
\* volume of the StatefulSet names is in the store.
C37_ClaimExists ==
    WroteStatefulSet(pass) => \A n \in ClaimsReferenced : pvc.exists /\ pvc.name = n

-----------------------------------------------------------------------------
(* The bundle of an instance without files *)

\* C38: after a pass that ended well on an instance whose spec has no config
\* files, the store has no ConfigMap of the instance.
C38_NoBundleWithoutFiles ==
    (PassOk(pass) /\ server.exists /\ Len(server.spec.configFiles) = 0) => ~configMap.exists

-----------------------------------------------------------------------------
(* The message of the stored status *)

\* C36: after a pass that completed the classification step without an error
\* the stored message is the message of the stored state.
C36_CanonicalMessage ==
    (PassOk(pass) /\ server.exists) => server.status.message = stateMessage(server.status.state)

-----------------------------------------------------------------------------
(* A status write the store rejects *)

\* The last pass sent a status and the store rejected it.
StatusRejected(p) == p.statusWrite /\ ~p.statusOk

\* A pass on the instance follows the pass recorded in p.
PassFollows(p) == StatusRejected(p) /\ pass' # p /\ pass'.found

\* The pass begins with the instance as the store has it.
FreshFetch ==
    /\ pass'.before = server.status
    /\ pass'.guard = ContainsFinalizer(server)
    /\ pass'.deleting = server.deleting

\* C30 as stated: after a pass whose status write the store rejected, the
\* store holds the status it held before the pass, the pass has returned an
\* error, the request is back in the queue, and the pass that follows begins
\* with the instance as the store has it.
C30_ConflictAsClaimed ==
    /\ [](StatusRejected(pass) => /\ server.status = pass.before
                                  /\ pass.result.err # ""
                                  /\ queued)
    /\ [][PassFollows(pass) => FreshFetch]_vars

\* C30, amended: after a pass whose status write the store rejected, the
\* store holds the status it held before the pass and the request is back in
\* the queue: the pass has returned an error, or, when the write was the one
\* of the template-not-ready step, no error and the re-check delay of 30; the
\* pass that follows begins with the instance as the store has it.
C30_Conflict ==
    /\ [](StatusRejected(pass) =>
            /\ server.status = pass.before
            /\ IF pass.branch = "notReady"
               THEN pass.result = Result(FALSE, 30, "")
               ELSE pass.result.err # ""
            /\ WillRetry(pass.result)
            /\ queued)
    /\ [][PassFollows(pass) => FreshFetch]_vars

\* The classification step sent a status that differs from the stored one and
\* the store rejected it: the stored status is the one from before the pass.
C30_Witness ==
    /\ StatusRejected(pass)
    /\ pass.branch = "classified"
    /\ pass.sent.state # pass.before.state
    /\ server.status = pass.before
    /\ pass.result.err # ""
    /\ queued

-----------------------------------------------------------------------------
(* The State Classifier on its own *)

StsGets ==
    {[err |-> "notFound", obj |-> NoObject], GetFailed}
    \cup {[err |-> "", obj |-> [exists |-> TRUE, status |-> st]] :
            st \in {[replicas |-> 0, readyReplicas |-> 0],
                    [replicas |-> 1, readyReplicas |-> 0],
                    [replicas |-> 1, readyReplicas |-> 1]}}

PodPhases == {"Pending", "Running", "Succeeded", "Failed", "Unknown"}

InitStatusLists ==
    {<<>>,
     <<ContainerWaiting(InitContainerName)>>,
     <<ContainerRunning(InitContainerName, FALSE)>>,
     <<ContainerTerminated(InitContainerName, 0)>>,
     <<ContainerTerminated(InitContainerName, 1)>>,
     <<ContainerTerminated("prepare", 1), ContainerTerminated(InitContainerName, 0)>>}

MainStatusLists ==
    {<<>>,
     <<ContainerWaiting(GameServerContainerName)>>,
     <<ContainerRunning(GameServerContainerName, TRUE)>>,
     <<ContainerRunning(GameServerContainerName, FALSE)>>,
     <<ContainerTerminated(GameServerContainerName, 1)>>,
     <<ContainerRunning("sidecar", TRUE), ContainerRunning(GameServerContainerName, FALSE)>>}

PodGets ==
    {[err |-> "notFound", obj |-> NoObject], GetFailed}
    \cup {[err |-> "", obj |-> PodOf(ph, i, m)] :
            ph \in PodPhases, i \in InitStatusLists, m \in MainStatusLists}

ClassifierInit ==
    /\ arg \in [stsGet : StsGets, podGet : PodGets]
    /\ res = <<>>
    /\ server = NoServer
    /\ gameDef = NoGameDef
    /\ configMap = NoObject
    /\ pvc = NoObject
    /\ sts = NoObject
    /\ svc = NoObject
    /\ pod = NoObject
    /\ queued = FALSE
    /\ gdQueued = FALSE
    /\ now = 0
    /\ pass = NoPass

Classify ==
    /\ res = <<>>
    /\ res' = <<determineState(arg.stsGet, arg.podGet)>>
    /\ UNCHANGED <<server, gameDef, configMap, pvc, sts, svc, pod, queued, gdQueued, now, pass, arg>>

ClassifierNext == Classify

ClassifierSpec == ClassifierInit /\ [][ClassifierNext]_vars

HasStatus(statuses, n, P(_)) == \E i \in 1..Len(statuses) : statuses[i].name = n /\ P(statuses[i])

\* The rows of the table that read the pod, in their order.
PodRows(podGet) ==
    IF podGet.err = "notFound" THEN ServerStatePending
    ELSE IF podGet.err # "" THEN ServerStateError
    ELSE IF podGet.obj.phase = "Pending" THEN ServerStatePending
    ELSE IF podGet.obj.phase = "Running"
    THEN IF HasStatus(podGet.obj.initContainerStatuses, InitContainerName,
                      LAMBDA cs : cs.state = "running")
         THEN ServerStateInstalling
         ELSE IF HasStatus(podGet.obj.initContainerStatuses, InitContainerName,
                           LAMBDA cs : cs.state = "terminated" /\ cs.exitCode # 0)
         THEN ServerStateError
         ELSE IF HasStatus(podGet.obj.containerStatuses, GameServerContainerName,
                           LAMBDA cs : cs.state = "running" /\ cs.ready)
         THEN ServerStateRunning
         ELSE ServerStateStarting
    ELSE IF podGet.obj.phase = "Failed" THEN ServerStateError
    ELSE ServerStatePending

\* The table as claimed: its two workload rows, then the pod rows.
ClaimedTable(stsGet, podGet) ==
    IF stsGet.err = "notFound" THEN ServerStatePending
    ELSE IF stsGet.err = "" /\ stsGet.obj.status.readyReplicas = 0 /\ stsGet.obj.status.replicas = 0
    THEN ServerStatePending
    ELSE PodRows(podGet)

\* The table with the row the code has and the claim lacks: a workload fetch
\* that fails with an error other than not-found gives Error.
AmendedTable(stsGet, podGet) ==
    IF stsGet.err \notin {"", "notFound"} THEN ServerStateError
    ELSE ClaimedTable(stsGet, podGet)

\* C10, as claimed: for every input the classifier returns the state of the
\* claimed table.
C10_TableAsClaimed == res # <<>> => res[1] = ClaimedTable(arg.stsGet, arg.podGet)

\* C10, amended: for every input the classifier returns the state of the table
\* with the added first row, workload fetch error other than not-found -> Error.
C10_Table == res # <<>> => res[1] = AmendedTable(arg.stsGet, arg.podGet)

\* The workload's fetch failed while the pod is running and ready: Error.
C10_Witness ==
    /\ res = <<ServerStateError>>
    /\ arg.stsGet.err = "other"
    /\ arg.podGet.err = ""
    /\ arg.podGet.obj.phase = "Running"
    /\ PodRows(arg.podGet) = ServerStateRunning

-----------------------------------------------------------------------------
(* The pure functions on their own: what the specifications below share *)

\* No object in the store, nothing queued.
StoreAtRest ==
    /\ server = NoServer
    /\ gameDef = NoGameDef
    /\ configMap = NoObject
    /\ pvc = NoObject
    /\ sts = NoObject
    /\ svc = NoObject
    /\ pod = NoObject
    /\ queued = FALSE
    /\ gdQueued = FALSE
    /\ now = 0
    /\ pass = NoPass

StoreUntouched == UNCHANGED <<server, gameDef, configMap, pvc, sts, svc, pod, queued, gdQueued, now, pass>>

-----------------------------------------------------------------------------
(* Artifact names: two instances of one namespace and the objects their       *)
(* passes write. arg is the pair of instances, res the objects in the store,  *)
(* each with the instance whose pass wrote it.                                *)

InstanceNames == {"srv", "srv-data", "srv-config", "srv-data-config", "valheim"}

ServiceName(serverName) == serverName

\* The objects a pass over the instance looks up and writes, by kind and name:
\* the ConfigMap only with config files, the PVC only with a storage size.
ArtifactKeys(serverName, withFiles, withStorage) ==
    {[kind |-> "StatefulSet", name |-> serverName],
     [kind |-> "Service", name |-> ServiceName(serverName)]}
    \cup (IF withFiles THEN {[kind |-> "ConfigMap", name |-> ConfigMapName(serverName)]} ELSE {})
    \cup (IF withStorage THEN {[kind |-> "PVC", name |-> PVCName(serverName)]} ELSE {})

NamingInit ==
    /\ arg \in {p \in [a : InstanceNames, b : InstanceNames] : p.a # p.b}
    /\ res = {}
    /\ StoreAtRest

\* A pass over one of the two instances writes its artifacts.
NamingPass ==
    /\ \E n \in {arg.a, arg.b}, withFiles \in BOOLEAN, withStorage \in BOOLEAN :
          res' = res \cup {[kind |-> k.kind, name |-> k.name, owner |-> n] :
                              k \in ArtifactKeys(n, withFiles, withStorage)}
    /\ UNCHANGED arg
    /\ StoreUntouched

NamingNext == NamingPass

NamingSpec == NamingInit /\ [][NamingNext]_vars

\* C13: each instance has at most one object of each kind, named from the
\* instance name (StatefulSet and Service: the name; PVC: name-data; ConfigMap:
\* name-config), and no object of a kind and name was written by the passes of
\* two instances.
C13_NameIsolation ==
    /\ \A r \in res :
          r.name = CASE r.kind = "StatefulSet" -> r.owner
                     [] r.kind = "Service" -> r.owner
                     [] r.kind = "PVC" -> r.owner \o "-data"
                     [] r.kind = "ConfigMap" -> r.owner \o "-config"
    /\ \A r1, r2 \in res : (r1.kind = r2.kind /\ r1.owner = r2.owner) => r1 = r2
    /\ \A r1, r2 \in res : (r1.kind = r2.kind /\ r1.name = r2.name) => r1.owner = r2.owner

\* Instances "srv" and "srv-data" have both had all four artifacts written: the
\* claim of the first and the workload of the second share a name, not a kind.
C13_Witness ==
    /\ {arg.a, arg.b} = {"srv", "srv-data"}
    /\ Cardinality(res) = 8
    /\ [kind |-> "PVC", name |-> "srv-data", owner |-> "srv"] \in res
    /\ [kind |-> "StatefulSet", name |-> "srv-data", owner |-> "srv-data"] \in res

-----------------------------------------------------------------------------
(* ValidateConfig on its own: arg is the pair (config, schema), res the error *)
(* returned, "" for nil.                                                      *)

SchemaKeys == {"name", "mode"}

SuppliedKeys == SchemaKeys \cup {"extra"}

SchemaEntries ==
    {[required |-> r, enum |-> e, default |-> "", mapTo |-> ""] :
        r \in BOOLEAN, e \in {<<>>, <<"easy", "hard">>}}

Schemas == UNION {[K -> SchemaEntries] : K \in SUBSET SchemaKeys}

SecretRef(v) == [value |-> v, secretKeyRef |-> "admin-secret/password"]

ConfigValues == {Literal(""), Literal("easy"), Literal("nightmare"), SecretRef(""), SecretRef("nightmare")}

Configs == UNION {[K -> ConfigValues] : K \in SUBSET SuppliedKeys}

ValidateInit ==
    /\ arg \in [config : Configs, schema : Schemas]
    /\ res = <<>>
    /\ StoreAtRest

\* One call: where more than one key offends within a check, the error is that
\* of any one of them.
ValidateCall ==
    /\ res = <<>>
    /\ \E err \in (IF ValidateConfig(arg.config, arg.schema) = {} THEN {""}
                     ELSE ValidateConfig(arg.config, arg.schema)) :
          res' = <<err>>
    /\ UNCHANGED arg
    /\ StoreUntouched

ValidateNext == ValidateCall

ValidateSpec == ValidateInit /\ [][ValidateNext]_vars

\* The text s has the text sub in it.
Contains(s, sub) == \E i \in 1..(Len(s) - Len(sub) + 1) : SubSeq(s, i, i + Len(sub) - 1) = sub

\* The required entries of the schema the config does not satisfy: the key is
\* missing, or has an empty literal and no secret reference.
Unsatisfied(config, schema) ==
    {k \in DOMAIN schema :
        /\ schema[k].required
        /\ \/ k \notin DOMAIN config
           \/ config[k].value = "" /\ config[k].secretKeyRef = ""}

\* An error of the required check that names the key.
RequiredErrorOn(err, k) == Contains(err, "required config key") /\ Contains(err, Quote(k))

\* C15: when a required entry is unsatisfied the config is rejected, with an
\* error of the required check that names an unsatisfied key; a required entry
\* whose key is supplied as a non-empty literal or as a secret reference is
\* never the one an error of the required check names.
C15_Required ==
    res # <<>> =>
        /\ Unsatisfied(arg.config, arg.schema) # {} =>
              /\ res[1] # ""
              /\ \E k \in Unsatisfied(arg.config, arg.schema) : RequiredErrorOn(res[1], k)
        /\ \A k \in DOMAIN arg.schema \ Unsatisfied(arg.config, arg.schema) : ~RequiredErrorOn(res[1], k)

\* A required key given as an empty literal, next to a required key given as a
\* secret reference: the error names the first.
C15_Witness ==
    /\ res # <<>>
    /\ DOMAIN arg.schema = {"name", "mode"}
    /\ arg.schema["name"].required
    /\ arg.schema["mode"].required
    /\ DOMAIN arg.config = {"name", "mode"}
    /\ arg.config["name"] = Literal("")
    /\ arg.config["mode"] = SecretRef("")
    /\ res[1] = "required config key \"name\" has empty value"

\* The enum-constrained keys the config supplies.
EnumSupplied(config, schema) == {k \in DOMAIN config \cap DOMAIN schema : Len(schema[k].enum) > 0}

\* An error of the enum check that names the key.
EnumErrorOn(err, k) == Contains(err, "not in allowed values") /\ Contains(err, "config key " \o Quote(k))

\* C16: a config is accepted only if every literal it supplies for an
\* enum-constrained key is a member of the key's enum, so every literal outside
\* the enum is rejected; a key supplied as a secret reference is never the one
\* an error of the enum check names.
C16_Enum ==
    res # <<>> =>
        \A k \in EnumSupplied(arg.config, arg.schema) :
            IF arg.config[k].secretKeyRef = ""
            THEN res[1] = "" => InEnum(arg.config[k].value, arg.schema[k].enum)
            ELSE ~EnumErrorOn(res[1], k)

-----------------------------------------------------------------------------
(* ResolveConfigValues on its own: arg is the pair (config, schema), res the  *)
(* outcomes of the calls made so far.                                         *)

ResolveKeys == {"name", "max-players", "max_players"}

ResolveEntries == {[required |-> FALSE, enum |-> <<>>, default |-> d, mapTo |-> ""] : d \in {"", "10"}}

ResolveSchemas == UNION {[K -> ResolveEntries] : K \in SUBSET ResolveKeys}

\* What a user can give for the key: an empty or a non-empty literal, or a
\* reference to a secret, with or without a value next to it.
ResolveValues(k) ==
    {Literal(""), Literal("16"),
     [value |-> "", secretKeyRef |-> "secrets/" \o k],
     [value |-> "16", secretKeyRef |-> "secrets/" \o k]}

ResolveConfigs ==
    UNION {{c \in [K -> UNION {ResolveValues(k) : k \in K}] : \A k \in K : c[k] \in ResolveValues(k)} :
              K \in SUBSET ResolveKeys}

ResolveInit ==
    /\ arg \in [config : ResolveConfigs, schema : ResolveSchemas]
    /\ res = <<>>
    /\ StoreAtRest

\* One call, after at most one earlier call on the same pair.
ResolveCall ==
    /\ Len(res) < 2
    /\ \E out \in ResolveConfigValues(arg.config, arg.schema) : res' = Append(res, out)
    /\ UNCHANGED arg
    /\ StoreUntouched

ResolveNext == ResolveCall

ResolveSpec == ResolveInit /\ [][ResolveNext]_vars

\* The binding names the keys are to give.
ClaimedEnvName(k) ==
    CASE k = "name" -> "CONFIG_NAME"
      [] k = "max-players" -> "CONFIG_MAX_PLAYERS"
      [] k = "max_players" -> "CONFIG_MAX_PLAYERS"

SecretBacked(config) == {k \in DOMAIN config : config[k].secretKeyRef # ""}

\* C17: in the outcome of a call, a key the user supplies maps to its literal
\* or, with a secret reference, to "$(CONFIG_<KEY>)"; each secret-backed key
\* has exactly one binding, of that name and to its secret, and there are no
\* other bindings; a key the user does not supply maps to its schema default
\* when that is non-empty and is absent otherwise.
C17_Resolve ==
    \A n \in 1..Len(res) :
        LET values == res[n].values
            envVars == res[n].envVars
        IN /\ DOMAIN values \subseteq DOMAIN arg.config \cup DOMAIN arg.schema
           /\ \A k \in DOMAIN arg.config :
                 /\ k \in DOMAIN values
                 /\ values[k] = IF k \in SecretBacked(arg.config)
                                 THEN "$(" \o ClaimedEnvName(k) \o ")"
                                 ELSE arg.config[k].value
           /\ \A k \in DOMAIN arg.schema \ DOMAIN arg.config :
                 IF arg.schema[k].default # ""
                 THEN k \in DOMAIN values /\ values[k] = arg.schema[k].default
                 ELSE k \notin DOMAIN values
           /\ Len(envVars) = Cardinality(SecretBacked(arg.config))
           /\ \A k \in SecretBacked(arg.config) :
                 Cardinality({i \in 1..Len(envVars) :
                                 envVars[i] = [name |-> ClaimedEnvName(k),
                                               secretKeyRef |-> arg.config[k].secretKeyRef]}) = 1

\* An empty literal stands over a default, a hyphenated key is secret-backed,
\* and a key with a default is left to it.
C17_Witness ==
    /\ Len(res) = 1
    /\ DOMAIN arg.schema = ResolveKeys
    /\ \A k \in ResolveKeys : arg.schema[k].default = "10"
    /\ DOMAIN arg.config = {"name", "max-players"}
    /\ arg.config["name"] = Literal("")
    /\ res[1].values = ("name" :> "" @@ "max-players" :> "$(CONFIG_MAX_PLAYERS)" @@ "max_players" :> "10")
    /\ res[1].envVars = <<[name |-> "CONFIG_MAX_PLAYERS", secretKeyRef |-> "secrets/max-players"]>>

\* C18: two calls on the same pair return the same value map and the same
\* list of bindings, in the same order.
C18_ResolveIdempotent == Len(res) = 2 => res[1] = res[2]

-----------------------------------------------------------------------------
(* InterpolateArgs on its own: arg is the argument templates, each given by   *)
(* its pieces, and the value map; res the outcome of the call.                *)

MaxArgs == 2

TextPiece(text) == [kind |-> "text", text |-> text]
RefPiece(key) == [kind |-> "ref", text |-> key]
SpacedRefPiece(key) == [kind |-> "spacedRef", text |-> key]
BadPiece(text) == [kind |-> "bad", text |-> text]

\* The text of a template: a reference to a key is written {{.Config.key}}.
RECURSIVE Source(_)
Source(pieces) ==
    IF Len(pieces) = 0 THEN ""
    ELSE (CASE pieces[1].kind = "ref" -> "{{.Config." \o pieces[1].text \o "}}"
            [] pieces[1].kind = "spacedRef" -> "{{ .Config." \o pieces[1].text \o " }}"
            [] OTHER -> pieces[1].text)
         \o Source(Tail(pieces))

Templates ==
    {<<>>,
     <<TextPiece("-name")>>,
     <<RefPiece("serverName")>>,
     <<TextPiece("Server-"), SpacedRefPiece("suffix")>>,
     <<RefPiece("serverName"), TextPiece("}} {x} "), RefPiece("missing")>>,
     <<TextPiece("-world "), BadPiece("{{.Config.world")>>,
     <<BadPiece("{{.Config.max-players}}")>>}

ValueMaps ==
    {<<>>,
     "serverName" :> "Vikings",
     "serverName" :> "Vikings" @@ "suffix" :> "001",
     "serverName" :> "{{.Config.suffix}}" @@ "suffix" :> ""}

InterpolateInit ==
    /\ arg \in [args : UNION {[1..n -> Templates] : n \in 0..MaxArgs}, config : ValueMaps]
    /\ res = <<>>
    /\ StoreAtRest

InterpolateCall ==
    /\ res = <<>>
    /\ res' = <<InterpolateArgs([i \in 1..Len(arg.args) |-> Source(arg.args[i])], arg.config)>>
    /\ UNCHANGED arg
    /\ StoreUntouched

InterpolateNext == InterpolateCall

InterpolateSpec == InterpolateInit /\ [][InterpolateNext]_vars

\* What a template made of text and references is to render as.
RECURSIVE Rendered(_, _)
Rendered(pieces, config) ==
    IF Len(pieces) = 0 THEN ""
    ELSE (IF pieces[1].kind = "text" THEN pieces[1].text
          ELSE IF pieces[1].text \in DOMAIN config THEN config[pieces[1].text]
          ELSE "<no value>")
         \o Rendered(Tail(pieces), config)

WellFormed(pieces) == \A j \in 1..Len(pieces) : pieces[j].kind # "bad"

\* C19: for a list of templates made of text and of references to keys, the
\* call returns no error and a list of the same length in which entry i is
\* template i with each reference replaced by the key's value, or by
\* "<no value>" when the map has no such key, and the text left as it is; a
\* list with a malformed template gives an error.
C19_Interpolate ==
    res # <<>> =>
        IF \A i \in 1..Len(arg.args) : WellFormed(arg.args[i])
        THEN /\ res[1].err = ""
             /\ Len(res[1].result) = Len(arg.args)
             /\ \A i \in 1..Len(arg.args) : res[1].result[i] = Rendered(arg.args[i], arg.config)
        ELSE res[1].err # ""

\* A plain argument next to one with a present and an absent key.
C19_Witness ==
    /\ res # <<>>
    /\ arg.config = ("serverName" :> "Vikings")
    /\ Len(arg.args) = 2
    /\ Source(arg.args[1]) = "-name"
    /\ Source(arg.args[2]) = "{{.Config.serverName}}}} {x} {{.Config.missing}}"
    /\ res[1] = [err |-> "", result |-> <<"-name", "Vikings}} {x} <no value>">>]

-----------------------------------------------------------------------------
(* buildMainEnvVars on its own: arg is the template (or none), the instance   *)
(* and the secret bindings; res the environment built.                        *)

MaxEnv == 2

PlainEntries ==
    {[name |-> "TZ", value |-> "UTC"], [name |-> "TZ", value |-> "CET"],
     [name |-> "CONFIG_NAME", value |-> "Vikings"]}

SecretEntries ==
    {[name |-> "CONFIG_NAME", secretKeyRef |-> "secrets/name"],
     [name |-> "CONFIG_NAME", secretKeyRef |-> "secrets/other"],
     [name |-> "TZ", secretKeyRef |-> "secrets/tz"]}

EnvLists(entries) == UNION {[1..n -> entries] : n \in 0..MaxEnv}

EnvInit ==
    /\ arg \in [gd : {[exists |-> FALSE]} \cup {[exists |-> TRUE, spec |-> [env |-> e]] : e \in EnvLists(PlainEntries)},
                srv : {[spec |-> [env |-> e]] : e \in EnvLists(PlainEntries)},
                configEnvVars : EnvLists(SecretEntries)]
    /\ res = <<>>
    /\ StoreAtRest

EnvCall ==
    /\ res = <<>>
    /\ res' = <<buildMainEnvVars(arg.srv, arg.gd, arg.configEnvVars)>>
    /\ UNCHANGED arg
    /\ StoreUntouched

EnvNext == EnvCall

EnvSpec == EnvInit /\ [][EnvNext]_vars

\* The entries of the three layers, one after the other.
Layers ==
    (IF arg.gd.exists THEN arg.gd.spec.env ELSE <<>>) \o arg.srv.spec.env \o arg.configEnvVars

FirstAt(envs, name) == CHOOSE i \in 1..Len(envs) : envs[i].name = name /\ \A j \in 1..(i - 1) : envs[j].name # name

LastAt(envs, name) == CHOOSE i \in 1..Len(envs) : envs[i].name = name /\ \A j \in (i + 1)..Len(envs) : envs[j].name # name

\* C21: the environment has every name of the three layers (template, then
\* instance, then secret bindings) exactly once; the entry of a name is the
\* last one with that name in the layers; the names come in the order of
\* their first appearance in the layers.
C21_EnvMerge ==
    res # <<>> =>
        /\ {res[1][i].name : i \in 1..Len(res[1])} = {Layers[i].name : i \in 1..Len(Layers)}
        /\ \A i, j \in 1..Len(res[1]) : i # j => res[1][i].name # res[1][j].name
        /\ \A i \in 1..Len(res[1]) : res[1][i] = Layers[LastAt(Layers, res[1][i].name)]
        /\ \A i, j \in 1..Len(res[1]) :
              i < j => FirstAt(Layers, res[1][i].name) < FirstAt(Layers, res[1][j].name)

\* A name of the template overridden by the instance and then by a secret
\* binding, after a name that only the instance overrides.
C21_Witness ==
    /\ res # <<>>
    /\ arg.gd.exists
    /\ arg.gd.spec.env = <<[name |-> "TZ", value |-> "UTC"], [name |-> "CONFIG_NAME", value |-> "Vikings"]>>
    /\ arg.srv.spec.env = <<[name |-> "CONFIG_NAME", value |-> "Vikings"], [name |-> "TZ", value |-> "CET"]>>
    /\ arg.configEnvVars = <<[name |-> "CONFIG_NAME", secretKeyRef |-> "secrets/name"]>>
    /\ res[1] = <<[name |-> "TZ", value |-> "CET"], [name |-> "CONFIG_NAME", secretKeyRef |-> "secrets/name"]>>

-----------------------------------------------------------------------------
(* CommandBuilder.Build on its own: arg is the CommandConfig, res the         *)
(* arguments built.                                                           *)

CommandConfigs ==
    [AppID : {0, 90, 123456}, InstallDir : {"", "/serverfiles"}, Anonymous : BOOLEAN,
     Beta : {"", "experimental"}, BetaPassword : {"", "hunter2"}, Validate : BOOLEAN]

BuildInit ==
    /\ arg \in CommandConfigs
    /\ res = <<>>
    /\ StoreAtRest

BuildCall ==
    /\ res = <<>>
    /\ res' = <<Build(arg)>>
    /\ UNCHANGED arg
    /\ StoreUntouched

BuildNext == BuildCall

BuildSpec == BuildInit /\ [][BuildNext]_vars

\* Where the update flag, the validation flag and the terminator stand.
UpdateAt == IF arg.Anonymous THEN 5 ELSE 6
ValidateAt == UpdateAt + 2 + (IF arg.Beta = "" THEN 0 ELSE IF arg.BetaPassword = "" THEN 2 ELSE 4)
QuitAt == ValidateAt + (IF arg.Validate THEN 1 ELSE 0)

-----------------------------------------------------------------------------
(* The builders on their own: arg is an instance and a template (or none),    *)
(* res the workload and the service built for them.                           *)

OverrideServers ==
    {[exists |-> TRUE,
      spec |-> [SpecBasic EXCEPT !.image = f.image, !.command = f.command, !.args = f.args,
                                 !.ports = f.ports, !.resources = f.resources]] :
     f \in [image : {"", "custom/game:1"},
            command : {<<>>, <<"/bin/sh", "-c">>},
            args : {<<>>, <<"-port", "2456">>},
            ports : {<<>>, <<PortQuery>>},
            resources : {NoResources, [isNil |-> FALSE, value |-> <<>>],
                         [isNil |-> FALSE, value |-> ("cpu" :> "2")]}]}

OverrideGameDefs ==
    {NoObject} \cup
    {[exists |-> TRUE,
      spec |-> [GDValid EXCEPT !.image = f.image, !.command = f.command, !.args = f.args,
                               !.ports = f.ports, !.defaultResources = f.defaultResources,
                               !.installDir = f.installDir]] :
     f \in [image : {"", "template/game:2"},
            command : {"", "/serverfiles/start.sh"},
            args : {<<>>, <<"-nographics", "-batchmode", "-public">>},
            ports : {<<>>, <<PortGame, PortQuery>>},
            defaultResources : {<<>>, ("cpu" :> "1" @@ "memory" :> "4Gi")},
            installDir : {"", "/opt/game"}]}

OverrideInit ==
    /\ arg \in [srv : OverrideServers, gd : OverrideGameDefs]
    /\ res = <<>>
    /\ StoreAtRest

OverrideBuild ==
    /\ res = <<>>
    /\ res' = <<[sts |-> StatefulSetBuild(arg.srv, arg.gd), svc |-> ServiceBuild(arg.srv, arg.gd)]>>
    /\ UNCHANGED arg
    /\ StoreUntouched

OverrideNext == OverrideBuild

OverrideSpec == OverrideInit /\ [][OverrideNext]_vars

\* The instance's value when it is set, else the template's when there is a
\* template, else the value given.
Chosen(set, own, template, default) ==
    IF set THEN own ELSE IF arg.gd.exists THEN template ELSE default

PortNumbers(ports) == [i \in 1..Len(ports) |-> [name |-> ports[i].name, containerPort |-> ports[i].containerPort]]

\* C24: in the workload and the service built for an instance and a template,
\* the image, the command, the arguments, the ports and the resources are the
\* instance's whenever the instance sets them, whole and unmixed, else the
\* template's, else the default image and nothing for the others; the install
\* directory is the template's, else /serverfiles, whatever the instance says.
C24_Overrides ==
    res # <<>> =>
        LET c == res[1].sts.template
            own == arg.srv.spec
            tmpl == IF arg.gd.exists THEN arg.gd.spec ELSE GDValid
        IN /\ c.image = IF own.image # "" THEN own.image
                        ELSE IF arg.gd.exists /\ tmpl.image # "" THEN tmpl.image
                        ELSE "steamcmd/steamcmd:ubuntu-22"
           /\ c.command = Chosen(own.command # <<>>, own.command,
                                 IF tmpl.command = "" THEN <<>> ELSE <<tmpl.command>>, <<>>)
           /\ c.args = Chosen(own.args # <<>>, own.args, tmpl.args, <<>>)
           /\ PortNumbers(c.ports) = PortNumbers(Chosen(own.ports # <<>>, own.ports, tmpl.ports, <<>>))
           /\ [i \in 1..Len(res[1].svc.ports) |->
                 [name |-> res[1].svc.ports[i].name, containerPort |-> res[1].svc.ports[i].targetPort]]
                = PortNumbers(Chosen(own.ports # <<>>, own.ports, tmpl.ports, <<>>))
           /\ c.resources = Chosen(~own.resources.isNil, own.resources.value, tmpl.defaultResources, <<>>)
           /\ c.initArgs[2] = IF arg.gd.exists /\ tmpl.installDir # "" THEN tmpl.installDir ELSE "/serverfiles"

\* An instance that sets its ports and resources under a template that has
\* more of both.
C24_Witness ==
    /\ res # <<>>
    /\ arg.gd.exists
    /\ arg.srv.spec.ports = <<PortQuery>>
    /\ arg.gd.spec.ports = <<PortGame, PortQuery>>
    /\ arg.srv.spec.resources = [isNil |-> FALSE, value |-> ("cpu" :> "2")]
    /\ arg.gd.spec.defaultResources = ("cpu" :> "1" @@ "memory" :> "4Gi")
    /\ arg.srv.spec.args = <<>>
    /\ arg.gd.spec.args = <<"-nographics", "-batchmode", "-public">>
    /\ arg.gd.spec.installDir = "/opt/game"
    /\ Len(res[1].sts.template.ports) = 1
    /\ res[1].sts.template.resources = ("cpu" :> "2")
    /\ res[1].sts.template.args = <<"-nographics", "-batchmode", "-public">>
    /\ res[1].sts.template.initArgs[2] = "/opt/game"

-----------------------------------------------------------------------------
(* validate on its own: arg is the spec of a GameDefinition, res the errors   *)
(* validate can return for it.                                                *)

MaxPorts == 2

CandidatePorts ==
    [name : {"", "game"}, containerPort : {0, 1, 65535, 65536}, servicePort : {0}, protocol : {""}]

\* Schemas by the mapTo of their entries: "" is an entry without a mapping.
CandidateSchemas ==
    {NoSchema} \cup
    {[isNil |-> FALSE,
      entries |-> [k \in DOMAIN m |-> [required |-> FALSE, enum |-> <<>>, default |-> "", mapTo |-> m[k]]]] :
     m \in {("a" :> t) : t \in {"", "arg", "env", "configFile", "file"}}
           \cup {"a" :> "configFile" @@ "b" :> "file", "a" :> "volume" @@ "b" :> "file"}}

CandidateSpecs ==
    [appId : {-1, 0, 1}, command : {"", "/serverfiles/start.sh"},
     ports : UNION {[1..n -> CandidatePorts] : n \in 0..MaxPorts},
     configSchema : CandidateSchemas]

GDValidateInit ==
    /\ arg \in CandidateSpecs
    /\ res = <<>>
    /\ StoreAtRest

GDValidateCall ==
    /\ res = <<>>
    /\ res' = <<validate(arg)>>
    /\ UNCHANGED arg
    /\ StoreUntouched

GDValidateNext == GDValidateCall

GDValidateSpec == GDValidateInit /\ [][GDValidateNext]_vars

\* What the claim asks of a template.
Acceptable(gd) ==
    /\ gd.appId >= 1
    /\ gd.command # ""
    /\ Len(gd.ports) >= 1
    /\ \A i \in 1..Len(gd.ports) :
          gd.ports[i].name # "" /\ gd.ports[i].containerPort \in 1..65535
    /\ \A k \in DOMAIN gd.configSchema.entries :
          gd.configSchema.entries[k].mapTo \in {"", "arg", "env", "configFile"}

\* C26: validate returns no error exactly for the templates with a positive
\* app id, a command, at least one port, a name and a container port between
\* 1 and 65535 on every port, and one of the three mapping types on every
\* schema entry that has a mapping.
C26_Validate == res # <<>> => (res[1] = {} <=> Acceptable(arg))

\* An accepted template with the two border ports and a file mapping.
C26_Witness ==
    /\ res = <<{}>>
    /\ arg.appId = 1
    /\ Len(arg.ports) = 2
    /\ arg.ports[1].containerPort = 1
    /\ arg.ports[2].containerPort = 65535
    /\ ~arg.configSchema.isNil
    /\ arg.configSchema.entries["a"].mapTo = "configFile"

-----------------------------------------------------------------------------
(* A pass of the GameDefinition reconciler on its own: arg is the stored      *)
(* template and whether the store takes a status update, res the outcome.     *)

StoredStatuses ==
    [ready : BOOLEAN, message : {"", GameDefValidatedMessage, "command is required"}]

StoredGameDefs ==
    {[exists |-> TRUE, spec |-> sp, status |-> st] :
        sp \in {c \in CandidateSpecs : Len(c.ports) <= 1}, st \in StoredStatuses}

GDPassInit ==
    /\ arg \in [gd : StoredGameDefs, ok : BOOLEAN]
    /\ res = <<>>
    /\ StoreAtRest

GDPassRun ==
    /\ res = <<>>
    /\ \E out \in GameDefReconcilePass(arg.gd, arg.ok) : res' = <<out>>
    /\ UNCHANGED arg
    /\ StoreUntouched

GDPassNext == GDPassRun

GDPassSpec == GDPassInit /\ [][GDPassNext]_vars

\* C28: a pass on a template that passes validation sends a status update
\* exactly when the stored ready flag is false or the stored message is not
\* the message of success; when it sends none the stored status stays and the
\* pass returns no error and no re-check.
C28_WriteOnlyOnChange ==
    (res # <<>> /\ Acceptable(arg.gd.spec)) =>
        /\ res[1].wrote <=> (~arg.gd.status.ready
                              \/ arg.gd.status.message # "GameDefinition validated successfully")
        /\ ~res[1].wrote => res[1].status = arg.gd.status /\ res[1].err = "" /\ ~res[1].requeue
        /\ (res[1].wrote /\ arg.ok) =>
              res[1].status = [ready |-> TRUE, message |-> "GameDefinition validated successfully"]

\* A valid template stored ready with the message of success: no update.
C28_Witness ==
    /\ res # <<>>
    /\ Acceptable(arg.gd.spec)
    /\ arg.gd.status = [ready |-> TRUE, message |-> "GameDefinition validated successfully"]
    /\ ~res[1].wrote
    /\ res[1].status = arg.gd.status

-----------------------------------------------------------------------------
(* The map function of the GameDefinition watch on its own: arg is the        *)
(* instances of the cluster (NoRef: no instance under that key), the name of  *)
(* the changed template and whether the List succeeds; res the requests.      *)

NoRef == "<none>"

FanoutKeys ==
    <<[namespace |-> "default", name |-> "srv"],
      [namespace |-> "games", name |-> "srv"],
      [namespace |-> "games", name |-> "other"]>>

FanoutRefs == {NoRef, "", "g1", "g2"}

\* What a List over all namespaces returns for the instances of arg.
ListedItems(refs) ==
    LET all == [i \in 1..Len(FanoutKeys) |->
                   [namespace |-> FanoutKeys[i].namespace, name |-> FanoutKeys[i].name,
                    exists |-> refs[i] # NoRef, spec |-> [gameDefinition |-> refs[i]]]]
    IN SelectSeq(all, LAMBDA s : s.exists)

FanoutInit ==
    /\ arg \in [refs : [1..Len(FanoutKeys) -> FanoutRefs], gameDef : {"g1", "g2"}, listOk : BOOLEAN]
    /\ res = <<>>
    /\ StoreAtRest

FanoutMap ==
    /\ res = <<>>
    /\ res' = <<findSteamServersForGameDef(ListedItems(arg.refs), arg.gameDef, arg.listOk)>>
    /\ UNCHANGED arg
    /\ StoreUntouched

FanoutNext == FanoutMap

FanoutSpec == FanoutInit /\ [][FanoutNext]_vars

RequestedKeys == {res[1][i] : i \in 1..Len(res[1])}

ReferencingKeys == {FanoutKeys[i] : i \in {j \in 1..Len(FanoutKeys) : arg.refs[j] = arg.gameDef}}

-----------------------------------------------------------------------------
(* The address of the status on its own: arg is the outcome of the Get of    *)
(* the Service (err and, without an error, the object), res the address.     *)

MaxIngress == 2

IngressEntries == [ip : {"", "203.0.113.7"}, hostname : {"", "lb.example.com"}]

IngressLists == UNION {[1..n -> IngressEntries] : n \in 0..MaxIngress}

ServiceGets ==
    {[err |-> e, obj |-> [exists |-> e = "", type |-> t, clusterIP |-> c, ingress |-> ing]] :
        e \in {"", "notFound", "other"},
        t \in {"LoadBalancer", "NodePort", "ClusterIP", "ExternalName"},
        c \in {"", "10.96.0.10", "None"},
        ing \in IngressLists}

AddressInit ==
    /\ arg \in ServiceGets
    /\ res = <<>>
    /\ StoreAtRest

AddressCall ==
    /\ res = <<>>
    /\ res' = <<determineAddress(arg)>>
    /\ UNCHANGED arg
    /\ StoreUntouched

AddressNext == AddressCall

AddressSpec == AddressInit /\ [][AddressNext]_vars

\* Entry i of the load balancer's ingress list carries an IP or a hostname.
HasAddress(i) == arg.obj.ingress[i].ip # "" \/ arg.obj.ingress[i].hostname # ""

\* C31: the address is empty when the Service could not be fetched; of a
\* LoadBalancer Service it is the IP, else the hostname, of the first ingress
\* entry that carries either, and "<pending>" when no entry does; of a
\* NodePort Service it is "<node-ip>"; of a ClusterIP Service its cluster IP.
C31_Address ==
    res # <<>> =>
        /\ arg.err # "" => res[1] = ""
        /\ (arg.err = "" /\ arg.obj.type = "LoadBalancer") =>
              IF \E i \in 1..Len(arg.obj.ingress) : HasAddress(i)
              THEN \E i \in 1..Len(arg.obj.ingress) :
                      /\ HasAddress(i)
                      /\ \A j \in 1..(i - 1) : ~HasAddress(j)
                      /\ res[1] = IF arg.obj.ingress[i].ip # "" THEN arg.obj.ingress[i].ip
                                  ELSE arg.obj.ingress[i].hostname
              ELSE res[1] = "<pending>"
        /\ (arg.err = "" /\ arg.obj.type = "NodePort") => res[1] = "<node-ip>"
        /\ (arg.err = "" /\ arg.obj.type = "ClusterIP") => res[1] = arg.obj.clusterIP

\* A load balancer whose first ingress entry is empty and whose second has a
\* hostname only: the hostname is the address.
C31_Witness ==
    /\ res # <<>>
    /\ arg.err = ""
    /\ arg.obj.type = "LoadBalancer"
    /\ arg.obj.ingress = <<[ip |-> "", hostname |-> ""], [ip |-> "", hostname |-> "lb.example.com"]>>
    /\ res[1] = "lb.example.com"

-----------------------------------------------------------------------------
(* Decoding a ConfigValue: arg is a JSON document, res the outcome of        *)
(* UnmarshalJSON on it. A document is its kind, its text when it is a string *)
(* or a number, and its members when it is an object.                        *)

JAbsent == [kind |-> "absent", str |-> ""]
JNull == [kind |-> "null", str |-> ""]
JString(v) == [kind |-> "string", str |-> v]
JNumber(v) == [kind |-> "number", str |-> v]

JSelector(name, key) == [kind |-> "object", str |-> "", name |-> name, key |-> key]

JSelectors ==
    {[kind |-> k, str |-> "", name |-> JAbsent, key |-> JAbsent] : k \in {"absent", "null"}}
      \cup {[kind |-> "string", str |-> "my-secret", name |-> JAbsent, key |-> JAbsent]}
      \cup {JSelector(n, k) : n \in {JAbsent, JString("my-secret"), JNumber("7")},
                              k \in {JAbsent, JString("password")}}

NoMembers ==
    [value |-> JAbsent, secretKeyRef |-> [kind |-> "absent", str |-> "", name |-> JAbsent, key |-> JAbsent],
     extra |-> JAbsent]

JObject(members) == [kind |-> "object", str |-> "", members |-> members]

JDocuments ==
    {[kind |-> "string", str |-> v, members |-> NoMembers] : v \in {"", "Vikings Only", "2456"}}
      \cup {[kind |-> "number", str |-> "2456", members |-> NoMembers]}
      \cup {[kind |-> k, str |-> "", members |-> NoMembers] : k \in {"bool", "null", "array", "invalid"}}
      \cup {JObject([value |-> v, secretKeyRef |-> r, extra |-> e]) :
              v \in {JAbsent, JNull, JString(""), JString("fallback"), JNumber("5")},
              r \in JSelectors,
              e \in {JAbsent, JString("x")}}

Decoded(v) == [err |-> FALSE, out |-> v]
DecodeError == [err |-> TRUE, out |-> ""]

\* json.Unmarshal into a string: a string is taken, null leaves the zero value.
UnmarshalString(doc) ==
    CASE doc.kind = "string" -> Decoded(doc.str)
      [] doc.kind \in {"null", "absent"} -> Decoded("")
      [] OTHER -> DecodeError

\* json.Unmarshal into a *SecretKeySelector: "" stands for nil, name/key for
\* the selector.
UnmarshalSelector(doc) ==
    CASE doc.kind \in {"null", "absent"} -> Decoded("")
      [] doc.kind = "object" ->
            LET name == UnmarshalString(doc.name)
                key == UnmarshalString(doc.key)
            IN IF name.err \/ key.err THEN DecodeError ELSE Decoded(name.out \o "/" \o key.out)
      [] OTHER -> DecodeError

\* json.Unmarshal into the alias of the struct; unknown members are skipped.
UnmarshalAlias(doc) ==
    CASE doc.kind = "null" -> Decoded([value |-> "", secretKeyRef |-> ""])
      [] doc.kind = "object" ->
            LET value == UnmarshalString(doc.members.value)
                ref == UnmarshalSelector(doc.members.secretKeyRef)
            IN IF value.err \/ ref.err THEN DecodeError
               ELSE Decoded([value |-> value.out, secretKeyRef |-> ref.out])
      [] OTHER -> DecodeError

UnmarshalJSONStructOnly(doc) == UnmarshalAlias(doc)

UnmarshalJSON(doc) ==
    LET str == UnmarshalString(doc) IN
    IF ~str.err THEN Decoded([value |-> str.out, secretKeyRef |-> ""])
    ELSE UnmarshalAlias(doc)

DecodeInit ==
    /\ arg \in JDocuments
    /\ res = <<>>
    /\ StoreAtRest

DecodeCall ==
    /\ res = <<>>
    /\ res' = <<UnmarshalJSON(arg)>>
    /\ UNCHANGED arg
    /\ StoreUntouched

DecodeNext == DecodeCall

DecodeSpec == DecodeInit /\ [][DecodeNext]_vars

\* The members of an object are of the types of the struct: value a string,
\* secretKeyRef an object whose name and key are strings; each may be missing.
WellTyped(doc) ==
    /\ doc.kind = "object"
    /\ doc.members.value.kind \in {"absent", "null", "string"}
    /\ \/ doc.members.secretKeyRef.kind \in {"absent", "null"}
       \/ /\ doc.members.secretKeyRef.kind = "object"
          /\ doc.members.secretKeyRef.name.kind \in {"absent", "string"}
          /\ doc.members.secretKeyRef.key.kind \in {"absent", "string"}

\* The value and the secret reference an object states.
StatedValue(doc) == IF doc.members.value.kind = "string" THEN doc.members.value.str ELSE ""

StatedRef(doc) ==
    IF doc.members.secretKeyRef.kind # "object" THEN ""
    ELSE doc.members.secretKeyRef.name.str \o "/" \o doc.members.secretKeyRef.key.str

\* C32 as stated: a bare scalar (a string, a number, a boolean) decodes to
\* the literal of its text with no secret reference, an object of the
\* struct's types to its value and secret reference, and any other input is
\* an error.
C32_DecodeAsClaimed ==
    res # <<>> =>
        /\ arg.kind \in {"string", "number"} =>
              ~res[1].err /\ res[1].out = [value |-> arg.str, secretKeyRef |-> ""]
        /\ arg.kind = "bool" => ~res[1].err /\ res[1].out.secretKeyRef = ""
        /\ WellTyped(arg) =>
              ~res[1].err /\ res[1].out = [value |-> StatedValue(arg), secretKeyRef |-> StatedRef(arg)]
        /\ (arg.kind \notin {"string", "number", "bool", "null"} /\ ~WellTyped(arg)) => res[1].err

\* C32, amended: a bare string decodes to the literal of that string with no
\* secret reference, an object of the struct's types to its value and secret
\* reference, and null to the empty literal; any other input, a bare number
\* or boolean included, is an error.
C32_Decode ==
    res # <<>> =>
        /\ arg.kind = "string" =>
              ~res[1].err /\ res[1].out = [value |-> arg.str, secretKeyRef |-> ""]
        /\ WellTyped(arg) =>
              ~res[1].err /\ res[1].out = [value |-> StatedValue(arg), secretKeyRef |-> StatedRef(arg)]
        /\ arg.kind = "null" => ~res[1].err /\ res[1].out = [value |-> "", secretKeyRef |-> ""]
        /\ (arg.kind \notin {"string", "null"} /\ ~WellTyped(arg)) => res[1].err

\* The bare string "2456" decodes to the literal 2456.
C32_Witness ==
    /\ res # <<>>
    /\ arg.kind = "string"
    /\ arg.str = "2456"
    /\ res[1] = [err |-> FALSE, out |-> [value |-> "2456", secretKeyRef |-> ""]]

-----------------------------------------------------------------------------
(* The bindings of a config with several secret-backed keys, under            *)
(* ResolveSpec: arg is the config and the schema, res the outcomes.          *)

\* The name between "$(" and ")" in a placeholder.
PlaceholderName(v) == SubSeq(v, 3, Len(v) - 1)

\* The environment of the main container when the template and the instance
\* give no variables of their own.
MainEnvOf(out) == MergeEnvVars(<<out.envVars>>)

\* C39: the bindings of distinct secret-backed keys have distinct names, and
\* in the environment of the main container the name in each key's
\* placeholder is bound to that key's secret entry.
C39_OwnSecret ==
    res # <<>> =>
        /\ Cardinality({res[1].envVars[i].name : i \in 1..Len(res[1].envVars)})
              = Cardinality(SecretBacked(arg.config))
        /\ \A k \in SecretBacked(arg.config) :
              \E i \in 1..Len(MainEnvOf(res[1])) :
                  /\ MainEnvOf(res[1])[i].name = PlaceholderName(res[1].values[k])
                  /\ MainEnvOf(res[1])[i].secretKeyRef = arg.config[k].secretKeyRef

(* -------------------------------------------------------------------------- *)
(* The install container on its own: arg is an instance and a template (or    *)
(* none), res the workload built for them.                                    *)

CredentialsSecretName == "steam-login"

InstallServers ==
    {[exists |-> TRUE,
      spec |-> [SpecBasic EXCEPT !.anonymous = f.anonymous, !.steamCredentialsSecret = f.secret,
                                 !.beta = f.beta, !.validate = f.validate, !.appId = f.appId]] :
     f \in [anonymous : {NoBool, [isNil |-> FALSE, value |-> TRUE], [isNil |-> FALSE, value |-> FALSE]},
            secret : {"", CredentialsSecretName},
            beta : {"", "experimental"},
            validate : {NoBool, [isNil |-> FALSE, value |-> FALSE]},
            appId : {NoAppId, [isNil |-> FALSE, value |-> 896660]}]}

InstallGameDefs == {NoObject, [exists |-> TRUE, spec |-> GDValid]}

InstallInit ==
    /\ arg \in [srv : InstallServers, gd : InstallGameDefs]
    /\ res = <<>>
    /\ StoreAtRest

InstallBuild ==
    /\ res = <<>>
    /\ res' = <<StatefulSetBuild(arg.srv, arg.gd)>>
    /\ UNCHANGED arg
    /\ StoreUntouched

InstallNext == InstallBuild

InstallSpec == InstallInit /\ [][InstallNext]_vars

\* The install arguments log in with the credentials of the environment.
HasLoginFlags(args) ==
    \E i \in 1..(Len(args) - 2) :
        args[i] = "+login" /\ args[i + 1] = "$STEAM_USERNAME" /\ args[i + 2] = "$STEAM_PASSWORD"

\* The environment binds the name to the entry of the secret.
Binds(env, name, secret, key) ==
    \E i \in 1..Len(env) :
        /\ env[i].name = name
        /\ "secretKeyRef" \in DOMAIN env[i]
        /\ env[i].secretKeyRef = secret \o "/" \o key

\* C40: whenever the install arguments log in with the credentials of the
\* environment, the environment of the install container binds the user name
\* and the password to the entries of the secret the instance names.
C40_CredentialsBound ==
    (res # <<>> /\ HasLoginFlags(res[1].template.initArgs)) =>
        /\ arg.srv.spec.steamCredentialsSecret # ""
        /\ Binds(res[1].template.initEnv, "STEAM_USERNAME", arg.srv.spec.steamCredentialsSecret, "username")
        /\ Binds(res[1].template.initEnv, "STEAM_PASSWORD", arg.srv.spec.steamCredentialsSecret, "password")

====
